---- MODULE Spec2Model ----
(***************************************************************************)
(* The runeshell hub (package hub): the agent registry, the client link    *)
(* state machine, writer arbitration, write_status broadcasts and the mux  *)
(* frame codec (package muxframe).  Every goroutine of the hub is a task   *)
(* whose steps are the critical sections and the link writes of the code.  *)
(***************************************************************************)
EXTENDS Integers, Sequences, FiniteSets, TLC

\* ------------------------------------------------------------- bounds
\* what the peers do over a run: connects, messages, disconnects and
\* administrative calls
MaxEvents == 5

\* the longest of the short frames given to muxframe.Decode
MaxFrameLen == 4

\* the client connections and the agent connections of a run, in the order in
\* which they are accepted
Conns == {1, 2}
Links == {1, 2}

\* ------------------------------------------------------------- values
AgentIds == {"agent1"}
NoAgentId == ""
S1 == <<1>>
S2 == <<2>>
NoSession == <<>>
NoClient == 0
NoLink == 0
MaxSidLen == 65535

\* ------------------------------------------------------------- muxframe
\* a faulty Encode: the length prefix keeps the low byte of the length only
EncodeLowByte(sessionID, payload) ==
  IF Len(sessionID) = 0 THEN [ok |-> FALSE, frame |-> <<>>]
  ELSE IF Len(sessionID) > MaxSidLen THEN [ok |-> FALSE, frame |-> <<>>]
  ELSE [ok |-> TRUE,
        frame |-> <<0, Len(sessionID) % 256>> \o sessionID \o payload]

\* a faulty Decode: a frame that declares no session id is accepted
DecodeAcceptsEmpty(data) ==
  IF Len(data) < 2 THEN [ok |-> FALSE, sid |-> <<>>, payload |-> <<>>]
  ELSE LET sidLen == data[1] * 256 + data[2] IN
    IF Len(data) < 2 + sidLen THEN [ok |-> FALSE, sid |-> <<>>, payload |-> <<>>]
    ELSE [ok |-> TRUE, sid |-> SubSeq(data, 3, 2 + sidLen),
          payload |-> SubSeq(data, 3 + sidLen, Len(data))]

Encode(sessionID, payload) ==
  IF Len(sessionID) = 0 THEN [ok |-> FALSE, frame |-> <<>>]
  ELSE IF Len(sessionID) > MaxSidLen THEN [ok |-> FALSE, frame |-> <<>>]
  ELSE [ok |-> TRUE,
        frame |-> <<Len(sessionID) \div 256, Len(sessionID) % 256>>
                    \o sessionID \o payload]

Decode(data) ==
  IF Len(data) < 2 THEN [ok |-> FALSE, sid |-> <<>>, payload |-> <<>>]
  ELSE LET sidLen == data[1] * 256 + data[2] IN
    IF Len(data) < 2 + sidLen THEN [ok |-> FALSE, sid |-> <<>>, payload |-> <<>>]
    ELSE IF SubSeq(data, 3, 2 + sidLen) = <<>>
      THEN [ok |-> FALSE, sid |-> <<>>, payload |-> <<>>]
      ELSE [ok |-> TRUE, sid |-> SubSeq(data, 3, 2 + sidLen),
            payload |-> SubSeq(data, 3 + sidLen, Len(data))]

\* ------------------------------------------------------------- registry
\* h.agents[agentID] of an id with no record
NilAgent == [conn |-> NoLink, clients |-> {}, writer |-> NoClient,
             write |-> FALSE, sess |-> NoSession]

agentOf(ag, agentID) == IF agentID \in DOMAIN ag THEN ag[agentID] ELSE NilAgent

registerAgent(ag, agentID, conn) ==
  [ag EXCEPT ![agentID] = [conn |-> conn, clients |-> {}, writer |-> NoClient,
                           write |-> TRUE, sess |-> NoSession]]

\* a faulty guard: the record of the id is removed whatever its link
unregisterAppliesAnyLink(ag, agentID, conn) ==
  agentOf(ag, agentID) # NilAgent

\* TRUE when unregisterAgent finds the record of this very link
unregisterApplies(ag, agentID, conn) ==
  agentOf(ag, agentID) # NilAgent /\ agentOf(ag, agentID).conn = conn

unregisterAgent(ag, agentID, conn) ==
  IF unregisterApplies(ag, agentID, conn)
  THEN [ag EXCEPT ![agentID] = NilAgent]
  ELSE ag

currentAgent(ag, agentID) == agentOf(ag, agentID).conn

addClientOk(ag, agentID) == agentOf(ag, agentID) # NilAgent

addClient(ag, agentID, clientID) ==
  IF agentOf(ag, agentID) = NilAgent THEN ag
  ELSE [ag EXCEPT ![agentID].clients = @ \cup {clientID}]

removeClientWasWriter(ag, agentID, clientID) ==
  agentOf(ag, agentID) # NilAgent /\ agentOf(ag, agentID).writer = clientID

removeClient(ag, agentID, clientID) ==
  IF agentOf(ag, agentID) = NilAgent THEN ag
  ELSE [ag EXCEPT ![agentID].clients = @ \ {clientID},
                  ![agentID].writer = IF @ = clientID THEN NoClient ELSE @]

\* a faulty snapshot: it holds one client of the record at most
clientSnapshotOne(ag, agentID) ==
  LET clients == agentOf(ag, agentID).clients
  IN IF clients = {} THEN {} ELSE {CHOOSE c \in clients : TRUE}

clientSnapshot(ag, agentID) == agentOf(ag, agentID).clients

setSession(ag, agentID, sessionID) ==
  IF agentOf(ag, agentID) = NilAgent THEN ag
  ELSE [ag EXCEPT ![agentID].sess = sessionID]

\* a faulty check: the active session hint of the record is not consulted
setWebWritableOkAnySession(ag, agentID, sessionID) ==
  agentOf(ag, agentID) # NilAgent

\* a faulty isWriter: a vacant writer slot counts as held by the asker
isWriterVacantHeld(ag, agentID, clientID) ==
  /\ agentOf(ag, agentID) # NilAgent
  /\ agentOf(ag, agentID).writer \in {clientID, NoClient}

isWriter(ag, agentID, clientID) ==
  /\ agentOf(ag, agentID) # NilAgent
  /\ agentOf(ag, agentID).writer = clientID

\* a faulty hasWriter: the slot of an existing record counts as taken
hasWriterAlways(ag, agentID) == agentOf(ag, agentID) # NilAgent

hasWriter(ag, agentID) ==
  agentOf(ag, agentID) # NilAgent /\ agentOf(ag, agentID).writer # NoClient

setWriter(ag, agentID, clientID) ==
  IF agentOf(ag, agentID) = NilAgent THEN ag
  ELSE [ag EXCEPT ![agentID].writer = clientID]

clearWriter(ag, agentID) ==
  IF agentOf(ag, agentID) = NilAgent THEN ag
  ELSE [ag EXCEPT ![agentID].writer = NoClient]

webWritable(ag, agentID) ==
  agentOf(ag, agentID) # NilAgent /\ agentOf(ag, agentID).write

setWebWritableOk(ag, agentID, sessionID) ==
  /\ agentOf(ag, agentID) # NilAgent
  /\ agentOf(ag, agentID).sess = NoSession \/ agentOf(ag, agentID).sess = sessionID

setWebWritable(ag, agentID, sessionID, enabled) ==
  IF setWebWritableOk(ag, agentID, sessionID)
  THEN [ag EXCEPT ![agentID].write = enabled]
  ELSE ag


\* ------------------------------------------------------------- messages
NoFrame == <<>>
Msg(type) == [type |-> type, sid |-> NoSession, code |-> "", write |-> FALSE,
              frame |-> NoFrame, proto |-> 0]
NoMsg == Msg("")
ErrorMsg(code) == [Msg("error") EXCEPT !.code = code]
DeniedMsg(code) == [Msg("write_denied") EXCEPT !.code = code]
WriteStatusMsg(write) == [Msg("write_status") EXCEPT !.write = write]
AttachedMsg(write) == [Msg("attached") EXCEPT !.write = write]
AttachMsg(sid, proto) == [Msg("attach") EXCEPT !.sid = sid, !.proto = proto]
SessionsSyncMsg(sessions) == [Msg("sessions_sync") EXCEPT !.frame = sessions]
ListSessionsMsg(req) == [Msg("list_sessions") EXCEPT !.proto = req]
SessionMsg(type, sid) == [Msg(type) EXCEPT !.sid = sid]
BinaryMsg(frame) == [Msg("binary") EXCEPT !.frame = frame]

\* ------------------------------------------------------------- inputs
\* What the peers send in a run is drawn from the alphabet of one profile.
\*   arbitration: protocol-1 clients with and without the write claim that
\*                request and release the writer slot, send input and change
\*                focus, with the administrative lock;
\*   mux:         protocol-1 and protocol-2 clients that attach sessions,
\*                change the active session and send frames of every shape;
\*   links:       every writer of the agent link and of the client links: the
\*                agent sends output frames and answers list_sessions, the
\*                clients arbitrate, resize and send input.
\*   output:      agents that send numbered output frames of two sessions to
\*                protocol-1 clients bound to a session or to none and to
\*                protocol-2 clients; some handshakes fail.
\*   control:     protocol-2 clients of one agent link that stay connected:
\*                the first sends attach, detach and resize controls, the
\*                others resize controls, each control naming a session of
\*                its own, while session syncs write on the same agent link.
\*   handshake:   clients whose first message is or is not an attach, of a
\*                supported or unsupported version, for a known or unknown
\*                agent, matching or not matching the claims.
\*   sessions:    protocol-2 clients that attach and detach sessions, with
\*                an agent that answers, repeats or withholds its session
\*                lists.
\*   requests:    the clients, controls and session lists of the profile
\*                sessions with one client connection.
\*   admin:       protocol-1 clients with a pinned session that request the
\*                writer slot, with administrative lock calls whose
\*                responses are recorded.
\*   denial:      protocol-1 clients with and without the write claim that
\*                request and release the writer slot of one agent link that
\*                stays,
\*                with administrative lock and unlock calls.
\*   relay:       one protocol-2 client that attaches and detaches sessions,
\*                with an agent that reports failed attaches.
\*   agent:       a hub that sends attach, detach and heartbeat controls to
\*                one agent client, falls silent or closes the link, and a
\*                supervisor that cancels the client's context.
\*   shared:      two protocol-2 clients of one agent link that attach the
\*                same session; the first also detaches it; the agent
\*                client reads what the hub writes on the link.
\*   cross:       one protocol-2 client and two agent connections, each of
\*                which answers any request id with a list that names the
\*                connection.
\*   overlap:     one protocol-2 client that attaches a second session, and
\*                an agent that answers every list_sessions.
\*   retry:       RunWithRetry with a negative, a zero and a positive retry
\*                delay, and a hub that sends one attach.
\*   codec:       calls of muxframe.Encode and Decode, no peer.
\*   fatal:       protocol-2 clients with a pinned session and the write
\*                claim that request the writer slot; the first also sends
\*                text that is not JSON, controls without session_id and an
\*                attach of another session.
\* The session syncs started by client handlers run in the profiles links,
\* control, sessions and requests.  In
\* the other profiles the agent never answers list_sessions, and a sync would
\* only write list_sessions under writeMu and time out, without a write to
\* the registry or to a client conn: these profiles leave the syncs out.
Profiles == {"arbitration", "mux", "links", "output", "control", "handshake",
             "sessions", "requests", "admin", "denial", "relay", "fatal",
             "agent", "codec", "shared", "cross", "overlap", "retry"}

SyncOn(p) ==
  p \in {"links", "control", "sessions", "requests", "cross", "overlap"}

\* the events of a run of the profile
EventBudget(p) ==
  IF p \in {"links", "output", "sessions", "requests", "cross"}
    THEN MaxEvents - 1
  ELSE IF p \in {"mux", "denial", "fatal"} THEN MaxEvents + 1
  ELSE MaxEvents

\* the client connections of a run of the profile
ClientsOf(p) ==
  IF p \in {"mux", "requests", "admin", "relay", "cross", "overlap"} THEN {1}
  ELSE Conns

\* the agent connections of a run of the profile
LinksOf(p) ==
  IF p \in {"control", "sessions", "requests", "denial", "relay", "fatal",
            "shared", "overlap"}
    THEN {1}
  ELSE Links

EmptyClaims == [AgentID |-> NoAgentId, SessionID |-> NoSession, Write |-> FALSE]
Claims(agentID, sessionID, write) ==
  [AgentID |-> agentID, SessionID |-> sessionID, Write |-> write]
Attach(agentID, sessionID, v) ==
  [Type |-> "attach", AgentID |-> agentID, SessionID |-> sessionID,
   ProtocolVersion |-> v]

ClaimsInputs(p) ==
  IF p \in {"arbitration", "denial"}
    THEN {Claims("agent1", S1, TRUE), Claims("agent1", S1, FALSE)}
  ELSE IF p = "mux"
    THEN {Claims("agent1", NoSession, TRUE), Claims("agent1", S1, TRUE)}
  ELSE IF p = "output"
    THEN {EmptyClaims, Claims("agent1", NoSession, TRUE)}
  ELSE IF p = "handshake"
    THEN {EmptyClaims, Claims("agent1", S1, TRUE)}
  ELSE IF p \in {"admin", "fatal"} THEN {Claims("agent1", S1, TRUE)}
  ELSE {EmptyClaims}

AttachInputs(p) ==
  IF p \in {"arbitration", "admin", "denial"} THEN {Attach("agent1", S1, 0)}
  ELSE IF p = "mux"
    THEN {Attach("agent1", S1, 1), Attach("agent1", S1, 2),
          Attach("agent1", NoSession, 2)}
  ELSE IF p = "output"
    THEN {Attach("agent1", S1, 1), Attach("agent1", NoSession, 1),
          Attach("agent1", S2, 2)}
  ELSE IF p \in {"control", "sessions", "requests", "relay", "fatal",
                  "shared", "cross", "overlap"}
    THEN {Attach("agent1", S1, 2)}
  ELSE IF p = "handshake"
    THEN {Attach("agent1", S1, 1), Attach("agent1", S1, 3),
          [Attach("agent1", S1, 1) EXCEPT !.Type = "resize"],
          Attach(NoAgentId, S1, 1), Attach("agent2", S1, 0),
          Attach("agent1", S2, 1), Attach("agent1", S2, 2),
          Attach("agent1", NoSession, 2)}
  ELSE {Attach("agent1", S1, 1), Attach("agent1", S2, 2)}

\* binary messages a client sends: raw bytes in protocol 1, frames in protocol 2
ClientBinary(p) ==
  IF p = "mux"
    THEN {<<0>>, <<0, 0, 1>>, <<0, 1, 1>>, <<0, 1, 2, 7>>, <<0, 2, 1>>,
          <<1, 0, 1>>}
  ELSE IF p \in {"output", "handshake", "sessions", "requests", "admin",
                  "denial", "relay", "fatal", "shared", "cross", "overlap"}
    THEN {}
  ELSE {<<7>>}

ClientText(p) ==
  IF p = "arbitration"
    THEN {Msg(t) : t \in {"request_write", "release_write"}}
         \cup {[Msg("focus") EXCEPT !.code = st] : st \in {"on", "off"}}
  ELSE IF p = "mux"
    THEN {Msg("request_write"), SessionMsg("attach", S2),
          SessionMsg("active", S2), SessionMsg("active", NoSession)}
  ELSE IF p \in {"output", "handshake"} THEN {}
  ELSE IF p \in {"admin", "denial", "fatal"} THEN {Msg("request_write")}
  ELSE IF p \in {"sessions", "requests", "relay"}
    THEN {SessionMsg("attach", S2), SessionMsg("detach", S1)}
  ELSE IF p = "shared" THEN {SessionMsg("detach", S1)}
  ELSE IF p = "cross" THEN {}
  ELSE IF p = "overlap" THEN {SessionMsg("attach", S2)}
  ELSE {Msg("request_write"), Msg("release_write"), SessionMsg("resize", S1)}

ClientMessages(p) == ClientText(p) \cup {BinaryMsg(f) : f \in ClientBinary(p)}

\* what client link k may send as the n-th event of a run; a control of the
\* profile control names the session <<k, n>>, in the profile sessions only
\* client link 1 sends controls, and in the profile denial only client link 1
\* releases the writer slot
ClientMessagesAt(p, k, n) ==
  IF p = "control"
    THEN {SessionMsg(t, <<k, n>>) :
            t \in IF k = 1 THEN {"attach", "detach", "resize"} ELSE {"resize"}}
  ELSE IF p \in {"sessions", "requests", "shared"} /\ k # 1 THEN {}
  ELSE IF p = "denial" /\ k = 1
    THEN ClientMessages(p) \cup {Msg("release_write")}
  ELSE IF p = "fatal" /\ k = 1
    THEN ClientMessages(p)
         \cup {Msg("badjson"), SessionMsg("attach", S2)}
         \cup {SessionMsg(t, NoSession) : t \in {"attach", "detach", "active"}}
  ELSE ClientMessages(p)

\* the request ids an agent answers when n requests were issued and the
\* messages of wlog were written to it: the agent of the profile overlap
\* answers the list_sessions messages it was sent, every other agent any id
RequestsAnswered(p, wlog, n) ==
  IF p = "overlap"
    THEN {wlog[i].proto :
            i \in {j \in 1..Len(wlog) : wlog[j].type = "list_sessions"}}
  ELSE 1..(n + 1)

\* the session lists an agent reports
SessionLists(p) == IF p = "links" THEN {<<S1>>} ELSE {}

\* the session lists an agent may report under request id r as the n-th event
\* of a run; a list of the profile sessions names the request and the event
SessionListsAt(p, l, r, n) ==
  IF p \in {"sessions", "requests", "overlap"} THEN {<<r, n>>}
  ELSE IF p = "cross" THEN {<<r, n, l>>}
  ELSE SessionLists(p)

\* the control messages other than sessions an agent sends on a link on which
\* the messages of wlog were written to it: it reports a failed attach once an
\* attach has reached it
AgentControls(p, wlog) ==
  IF p = "relay" /\ \E i \in 1..Len(wlog) : wlog[i].type = "attach"
  THEN {ErrorMsg("attach_failed")} ELSE {}

\* the controls a hub sends to an agent client
HubControls(p) ==
  IF p = "agent"
    THEN {SessionMsg("attach", S1), SessionMsg("attach", S2),
          SessionMsg("detach", S1), Msg("heartbeat")}
  ELSE IF p = "retry" THEN {SessionMsg("attach", S1)}
  ELSE {}

\* output frames an agent sends
AgentBinary(p) ==
  IF p = "links" THEN {<<0>>, <<0, 1, 1, 8>>} ELSE {}

\* the output frame of session sid that link l sends as the n-th event of a
\* run: its payload names the session, the link and the event
OutputFrame(sid, l, n) == Encode(sid, <<sid[1], l, n>>).frame

\* what an agent may send on link l as the n-th event of a run
AgentFrames(p, l, n) ==
  IF p = "output"
    THEN {<<0>>} \cup {OutputFrame(sid, l, n) : sid \in {S1, S2}}
  ELSE AgentBinary(p)

\* the messages that the links of a run keep a log of
Logged(p) ==
  IF p = "output" THEN {"binary"}
  ELSE IF p = "control" THEN {"attach", "detach", "resize"}
  ELSE IF p = "handshake" THEN {"attach", "error"}
  ELSE IF p \in {"sessions", "requests"}
    THEN {"list_sessions", "sessions_sync", "error"}
  ELSE IF p = "admin" THEN {"lock"}
  ELSE IF p = "relay" THEN {"attach", "error", "agent_error"}
  ELSE IF p = "denial" THEN {"write_denied"}
  ELSE IF p = "fatal" THEN {"error"}
  ELSE IF p = "shared" THEN {"attach", "detach"}
  ELSE IF p \in {"cross", "overlap"} THEN {"list_sessions", "sessions_sync"}
  ELSE {}

\* the administrative lock calls of a run
AdminInputs(p) ==
  IF p \in {"arbitration", "admin"}
    THEN [agentID : AgentIds, sessionID : {S1, S2}, enabled : BOOLEAN]
  ELSE IF p = "denial"
    THEN [agentID : AgentIds, sessionID : {S1}, enabled : BOOLEAN]
  ELSE {}

\* ------------------------------------------------------------- state
VARIABLES
  agents,     \* h.agents: agent id -> agentState (NilAgent when absent)
  clientID,   \* h.clientID
  links,      \* the agent connections: read loop, conn and writeMu of each
  cl,         \* the client connections: ServeClientConn's locals and conn
  spawned,    \* go h.syncSessions(agentID) started and not yet running
  syncs,      \* the running session syncs (requestSessions, broadcastSessions)
  reqID,      \* h.reqID
  pendingSessions, \* h.pendingSessions: request id -> channel of capacity 1
  events,     \* connects, messages, disconnects and admin calls so far
  lockReply,  \* the last call of LockHandler and the status of its response
  run,        \* agent.Client.Run: its position, context, link and sessions
  mux,        \* a call of muxframe.Encode or Decode: arguments and results
  profile     \* the alphabet of the run's inputs

vars == <<agents, clientID, links, cl, spawned, syncs, reqID, pendingSessions,
          events, lockReply, run, mux, profile>>
syncVars == <<syncs, reqID, pendingSessions>>

NoTask == <<>>
ClientTask(k) == <<"client", k>>
AgentTask(l) == <<"agent", l>>

InitLink == [pc |-> "unused", agentID |-> NoAgentId, open |-> FALSE,
             mu |-> NoTask, snap |-> {}, out |-> NoMsg, to |-> 0,
             sid |-> NoSession, payload |-> NoFrame, data |-> NoFrame,
             all |-> {}, done |-> {}, wlog |-> <<>>, msg |-> NoMsg]

InitClient == [pc |-> "idle", agentID |-> NoAgentId, session |-> NoSession,
               write |-> FALSE, proto |-> 0, agent |-> NoLink, id |-> NoClient,
               bound |-> NoSession, first |-> NoSession, focus |-> FALSE,
               active |-> NoSession, inp |-> NoFrame, out |-> NoMsg, to |-> 0,
               ret |-> "",
               bret |-> "", snap |-> {}, bw |-> NoClient, open |-> FALSE,
               status |-> "none", req |-> "", rcv |-> <<>>,
               failed |-> "", errs |-> <<>>]

StatusNoContent == 204
StatusNotFound == 404
NoReply == [agentID |-> NoAgentId, sessionID |-> NoSession, enabled |-> FALSE,
            n |-> 0, status |-> 0]

\* no call of muxframe
NoCall == [ok |-> FALSE, sid |-> <<>>, payload |-> <<>>, frame |-> <<>>]
NoMux == [pc |-> "none", sid |-> <<>>, payload |-> <<>>, data |-> <<>>,
          enc |-> NoCall, dec |-> NoCall]

\* the session ids of a run
SessionIds == {S1, S2}

\* Client.Run after its Dial: at the top of the loop, context live, link
\* open with nothing to read, no session in the map, no output goroutine, no
\* attach error written; pos counts the messages read from the hub's link,
\* opened and closed the sessions that Manager.Attach returned and the
\* calls of their Close. Run is called on its own: loop, retry, delay and
\* ret are the state of RunWithRetry when it is the caller (its position,
\* the delay it was given in seconds, the duration of its timer, and the
\* error it returned)
InitRun == [pc |-> "top", cancelled |-> FALSE, open |-> TRUE, inbox |-> <<>>,
            sessions |-> {}, err |-> "", failed |-> 0, pos |-> 0,
            live |-> {}, opened |-> [id \in SessionIds |-> 0],
            closed |-> [id \in SessionIds |-> 0],
            loop |-> "none", retry |-> 0, delay |-> 0, ret |-> ""]

\* the retry delays RunWithRetry is given, in seconds
RetryInputs == {-1, 0, 3}

\* Run as RunWithRetry calls it with the delay retry: before its Dial
CallRun(r, retry) ==
  [InitRun EXCEPT !.pc = "start", !.open = FALSE, !.loop = "run",
                  !.retry = retry, !.cancelled = r.cancelled]

\* the states of Run at the start
RunInputs(p) ==
  IF p = "retry" THEN {CallRun(InitRun, retry) : retry \in RetryInputs}
  ELSE {InitRun}

InitRest(p) ==
  /\ agents = [a \in AgentIds |-> NilAgent]
  /\ clientID = 0
  /\ links = [l \in Links |-> InitLink]
  /\ cl = [k \in Conns |-> InitClient]
  /\ spawned = [a \in AgentIds |-> 0]
  /\ syncs = {}
  /\ reqID = 0
  /\ pendingSessions = <<>>
  /\ events = 0
  /\ lockReply = NoReply
  /\ run \in RunInputs(p)
  /\ profile = p

InitOf(p) == InitRest(p) /\ mux = NoMux

SyncTask(s) == <<"sync", s.req>>

\* the connection of the client with this id
connOf(c) == CHOOSE k \in Conns : cl[k].id = c

\* a faulty mutex: Lock returns although the mutex is held
LockNoExclusion(mu) == TRUE

\* sync.Mutex.Lock can return
Lock(mu) == mu = NoTask

\* what a client link records of a message written to it
Received(c, m) ==
  IF m.type = "write_status"
    THEN [c EXCEPT !.status = IF m.write THEN "true" ELSE "false"]
  ELSE IF m.type \in {"binary", "sessions_sync"} /\ m.type \in Logged(profile)
    THEN [c EXCEPT !.rcv = Append(@, m.frame)]
  ELSE IF m.type \in {"error", "write_denied"} /\ m.type \in Logged(profile)
    THEN [c EXCEPT !.errs = Append(@, m.code)]
  ELSE c

\* a faulty write side: the message overtakes the ones written before it
WrittenOvertaking(link, m) ==
  IF m.type \in Logged(profile) /\ link.open
    THEN [link EXCEPT !.wlog = <<m>> \o @]
  ELSE link

\* what an agent link records of a message written to it
Written(link, m) ==
  IF m.type \in Logged(profile) /\ link.open
    THEN [link EXCEPT !.wlog = Append(@, m)]
  ELSE link

\* the task is back at the top of its read loop: the locals of the last
\* message are dead
Loop(c) == [c EXCEPT !.pc = "loop", !.inp = NoFrame, !.out = NoMsg, !.to = 0,
                     !.ret = "",
                     !.bret = "", !.snap = {}, !.bw = NoClient, !.req = ""]


\* ------------------------------------------------------------- client link
\* a faulty handshake: the protocol version is not checked
handshakeAnyVersion(claims, attach) ==
  LET fail(code) == [code |-> code, claims |-> claims, proto |-> 0]
      v == attach.ProtocolVersion
      proto == IF v = 0 THEN 1 ELSE v
      empty == claims.AgentID = NoAgentId /\ claims.SessionID = NoSession
      made == IF empty
                THEN [AgentID |-> attach.AgentID,
                      SessionID |-> IF proto < 2 THEN attach.SessionID
                                    ELSE NoSession,
                      Write |-> TRUE]
                ELSE claims
  IN IF attach.Type # "attach" THEN fail("bad_request")
     ELSE IF empty /\ (attach.AgentID = NoAgentId \/ attach.SessionID = NoSession)
       THEN fail("bad_request")
     ELSE IF attach.AgentID # NoAgentId /\ attach.AgentID # made.AgentID
       THEN fail("not_authorized")
     ELSE IF proto < 2 /\ attach.SessionID # made.SessionID
       THEN fail("not_authorized")
     ELSE IF proto >= 2 /\ made.SessionID # NoSession
             /\ attach.SessionID # made.SessionID
       THEN fail("not_authorized")
     ELSE [code |-> "", claims |-> made, proto |-> proto]

\* ServeClientConn up to the agent lookup: the checks of the first message
handshake(claims, attach) ==
  LET fail(code) == [code |-> code, claims |-> claims, proto |-> 0]
      v == attach.ProtocolVersion
      proto == IF v = 0 THEN 1 ELSE v
      empty == claims.AgentID = NoAgentId /\ claims.SessionID = NoSession
      made == IF empty
                THEN [AgentID |-> attach.AgentID,
                      SessionID |-> IF proto < 2 THEN attach.SessionID
                                    ELSE NoSession,
                      Write |-> TRUE]
                ELSE claims
  IN IF attach.Type # "attach" THEN fail("bad_request")
     ELSE IF v # 0 /\ v # 1 /\ v # 2 THEN fail("bad_version")
     ELSE IF empty /\ (attach.AgentID = NoAgentId \/ attach.SessionID = NoSession)
       THEN fail("bad_request")
     ELSE IF attach.AgentID # NoAgentId /\ attach.AgentID # made.AgentID
       THEN fail("not_authorized")
     ELSE IF proto < 2 /\ attach.SessionID # made.SessionID
       THEN fail("not_authorized")
     ELSE IF proto >= 2 /\ made.SessionID # NoSession
             /\ attach.SessionID # made.SessionID
       THEN fail("not_authorized")
     ELSE [code |-> "", claims |-> made, proto |-> proto]

\* the task is about to write msg on its own link and then goes on at ret
\* (pc "cw": the call of conn.WriteJSON / WriteMessage is under way)
OwnWrite(c, k, msg, ret) ==
  [c EXCEPT !.pc = "cw", !.out = msg, !.to = k, !.ret = ret]

\* the handshake fails: sendError(conn, code, ...) and the deferred conn.Close
HandshakeError(c, k, code) ==
  OwnWrite([c EXCEPT !.failed = code], k, ErrorMsg(code), "d_close")

\* the task is about to write msg on its agent's link and then goes on at ret
AgentWrite(c, msg, ret) == [c EXCEPT !.pc = "aw", !.out = msg, !.ret = ret]

ClientHandshake(k) ==
  /\ cl[k].pc = "idle"
  /\ k \in ClientsOf(profile)
  /\ IF k = 1 THEN TRUE ELSE cl[k - 1].pc # "idle"
  /\ events < EventBudget(profile)
  /\ \E claims \in ClaimsInputs(profile), attach \in AttachInputs(profile) :
       LET h == handshake(claims, attach)
           agent == currentAgent(agents, h.claims.AgentID)
           c0 == [cl[k] EXCEPT !.open = TRUE]
           first == IF attach.SessionID = NoSession THEN h.claims.SessionID
                    ELSE attach.SessionID
       IN cl' = [cl EXCEPT ![k] =
            IF h.code # "" THEN HandshakeError(c0, k, h.code)
            ELSE IF agent = NoLink
              THEN HandshakeError(c0, k, "agent_offline")
            ELSE [c0 EXCEPT !.pc = "add",
                            !.agentID = h.claims.AgentID,
                            !.session = h.claims.SessionID,
                            !.write = h.claims.Write,
                            !.proto = h.proto,
                            !.agent = agent,
                            !.bound = IF h.proto < 2 /\ h.claims.SessionID = NoSession
                                      THEN attach.SessionID
                                      ELSE h.claims.SessionID,
                            !.first = first,
                            !.focus = TRUE,
                            !.active = IF h.claims.SessionID = NoSession THEN first
                                       ELSE h.claims.SessionID]]
  /\ events' = events + 1
  /\ UNCHANGED <<profile, run, mux, lockReply, spawned, syncVars, agents, clientID, links>>

\* a faulty counter: every client is given the first id again
nextClientIDReused(n) == 1

\* nextClientID: the atomic counter of the hub, incremented
nextClientID(n) == n + 1

\* nextClientID and addClient
ClientAdd(k) ==
  /\ cl[k].pc = "add"
  /\ clientID' = nextClientID(clientID)
  /\ agents' = addClient(agents, cl[k].agentID, clientID')
  /\ cl' = [cl EXCEPT ![k] =
       IF addClientOk(agents, cl[k].agentID)
       THEN [@ EXCEPT !.pc = "setsess", !.id = clientID']
       ELSE HandshakeError([@ EXCEPT !.id = clientID'], k, "agent_offline")]
  /\ UNCHANGED <<profile, run, mux, lockReply, spawned, syncVars, links, events>>

ClientSetSession(k) ==
  /\ cl[k].pc = "setsess"
  /\ agents' = setSession(agents, cl[k].agentID, cl[k].session)
  /\ cl' = [cl EXCEPT ![k] =
       AgentWrite([@ EXCEPT !.first = NoSession],
                  AttachMsg(cl[k].first, cl[k].proto), "attached")]
  /\ UNCHANGED <<profile, run, mux, lockReply, spawned, syncVars, clientID, links, events>>

\* agentState.writeJSON / writeMessage: writeMu.Lock
AgentWriteBegin(k) ==
  /\ cl[k].pc = "aw"
  /\ Lock(links[cl[k].agent].mu)
  /\ links' = [links EXCEPT ![cl[k].agent].mu = ClientTask(k)]
  /\ cl' = [cl EXCEPT ![k].pc = "awing"]
  /\ UNCHANGED <<profile, run, mux, lockReply, spawned, syncVars, agents, clientID, events>>

\* the write on the agent conn returns: writeMu.Unlock, and the caller goes on
AgentWriteEnd(k) ==
  /\ cl[k].pc = "awing"
  /\ links' = [links EXCEPT ![cl[k].agent] =
                 [Written(@, cl[k].out) EXCEPT !.mu = NoTask]]
  /\ cl' = [cl EXCEPT ![k] =
       IF cl[k].ret = "attached"
         THEN OwnWrite(@, k, AttachedMsg(cl[k].write), "ws_check")
       ELSE IF cl[k].ret = "attach2"
         THEN Loop([@ EXCEPT !.active = IF @ = NoSession THEN cl[k].out.sid
                                        ELSE @])
       ELSE Loop(@)]
  /\ spawned' = IF cl[k].ret \in {"attach2", "sync"} /\ SyncOn(profile)
                THEN [spawned EXCEPT ![cl[k].agentID] = @ + 1]
                ELSE spawned
  /\ UNCHANGED <<profile, run, mux, lockReply, syncVars, agents, clientID, events>>

\* where the task goes on after a write on a client conn
AfterWrite(c, sent) ==
  IF c.ret = "ws_check" /\ ~sent THEN [c EXCEPT !.pc = "d_remove", !.out = NoMsg]
  ELSE IF c.ret \in {"loop", "spawn"} THEN Loop(c)
  ELSE [c EXCEPT !.pc = c.ret, !.out = NoMsg, !.to = 0, !.ret = ""]

\* a write on a client conn returns; the message is delivered if the conn is
\* open.  In broadcastWriteStatus the write to the next client of the snapshot
\* starts.
ClientWriteEnd(k) ==
  /\ cl[k].pc = "cw"
  /\ LET to == cl[k].to
         sent == cl[to].open
         c1 == IF sent THEN [cl EXCEPT ![to] = Received(@, cl[k].out)] ELSE cl
     IN IF cl[k].ret = "bc" /\ cl[k].snap # {}
        THEN \E c \in cl[k].snap :
               cl' = [c1 EXCEPT ![k] =
                 [@ EXCEPT !.to = connOf(c),
                           !.out = WriteStatusMsg(c = cl[k].bw),
                           !.snap = @ \ {c}]]
        ELSE cl' = [c1 EXCEPT ![k] =
               IF cl[k].ret = "bc"
               THEN AfterWrite([@ EXCEPT !.ret = cl[k].bret, !.bret = "",
                                         !.bw = NoClient], sent)
               ELSE AfterWrite(@, sent)]
  /\ spawned' = IF cl[k].ret = "spawn" /\ SyncOn(profile)
                THEN [spawned EXCEPT ![cl[k].agentID] = @ + 1]
                ELSE spawned
  /\ UNCHANGED <<profile, run, mux, lockReply, syncVars, agents, clientID, links, events>>

\* h.sendWriteStatus(conn, h.isWriter(...)) after attached
ClientInitialStatus(k) ==
  /\ cl[k].pc = "ws_check"
  /\ cl' = [cl EXCEPT ![k] =
       OwnWrite(@, k, WriteStatusMsg(isWriter(agents, cl[k].agentID, cl[k].id)),
                "spawn")]
  /\ UNCHANGED <<profile, run, mux, lockReply, spawned, syncVars, agents, clientID, links, events>>


\* a faulty gate: the write claim is not consulted
claimsWriteIgnored(c) == TRUE

\* claims.Write, the first gate of request_write and of binary input
claimsWrite(c) == c.write

\* the main loop reads one message; the switch runs up to its first use of
\* the registry or of a link
dispatch(c, k, m, ag) ==
  LET c0 == [c EXCEPT !.req = m.type] IN
  IF m.type = "badjson"
    THEN OwnWrite(c0, k, ErrorMsg("bad_request"), "d_remove")
  ELSE IF m.type = "attach" THEN
    IF c.proto < 2 THEN c0
    ELSE IF m.sid = NoSession
      THEN OwnWrite(c0, k, ErrorMsg("bad_request"), "d_remove")
    ELSE IF c.session # NoSession /\ m.sid # c.session
      THEN OwnWrite(c0, k, ErrorMsg("not_authorized"), "d_remove")
    ELSE AgentWrite(c0, AttachMsg(m.sid, c.proto), "attach2")
  ELSE IF m.type = "request_write" THEN
    IF ~claimsWrite(c)
      THEN OwnWrite(c0, k, DeniedMsg("not_authorized"), "loop")
    ELSE IF ~webWritable(ag, c.agentID)
      THEN OwnWrite(c0, k, DeniedMsg("locked"), "loop")
    ELSE [c0 EXCEPT !.pc = "rw_has"]
  ELSE IF m.type = "release_write" THEN
    IF isWriter(ag, c.agentID, c.id) THEN [c0 EXCEPT !.pc = "rl_clear"] ELSE c0
  ELSE IF m.type = "detach" THEN
    IF c.proto < 2 THEN c0
    ELSE IF m.sid = NoSession
      THEN OwnWrite(c0, k, ErrorMsg("bad_request"), "d_remove")
    ELSE AgentWrite(c0, SessionMsg("detach", m.sid), "sync")
  ELSE IF m.type = "active" THEN
    IF c.proto < 2 THEN c0
    ELSE IF m.sid = NoSession
      THEN OwnWrite(c0, k, ErrorMsg("bad_request"), "d_remove")
    ELSE [c0 EXCEPT !.active = m.sid]
  ELSE IF m.type = "resize" THEN
    AgentWrite(c0, SessionMsg("resize",
                 IF c.proto >= 2 /\ m.sid = NoSession THEN c.active ELSE m.sid),
               "loop")
  ELSE IF m.type = "focus" THEN
    IF m.code = "on" THEN [c0 EXCEPT !.focus = TRUE]
    ELSE IF m.code = "off" THEN [c0 EXCEPT !.focus = FALSE]
    ELSE c0
  ELSE IF m.type = "binary" THEN
    IF ~claimsWrite(c) THEN c0
    ELSE IF ~c.focus \/ ~webWritable(ag, c.agentID) THEN c0
    ELSE [c0 EXCEPT !.pc = "b_is", !.inp = m.frame]
  ELSE c0

ClientRead(k) ==
  /\ cl[k].pc = "loop"
  /\ cl[k].open
  /\ events < EventBudget(profile)
  /\ \E m \in ClientMessagesAt(profile, k, events + 1) :
       LET c == dispatch(cl[k], k, m, agents) IN
       cl' = [cl EXCEPT ![k] = IF c.pc = "loop" THEN Loop(c) ELSE c]
  /\ events' = events + 1
  /\ UNCHANGED <<profile, run, mux, lockReply, spawned, syncVars, agents, clientID, links>>

\* ReadMessage fails: the peer went away or the conn was closed
ClientReadError(k) ==
  /\ cl[k].pc = "loop"
  /\ IF cl[k].open
     THEN events < EventBudget(profile) /\ events' = events + 1
     ELSE events' = events
  /\ cl' = [cl EXCEPT ![k].pc = "d_remove"]
  /\ UNCHANGED <<profile, run, mux, lockReply, spawned, syncVars, agents, clientID, links>>

\* request_write: h.hasWriter(...) && ...
RequestHasWriter(k) ==
  /\ cl[k].pc = "rw_has"
  /\ cl' = [cl EXCEPT ![k].pc =
       IF hasWriter(agents, cl[k].agentID) THEN "rw_is" ELSE "rw_set"]
  /\ UNCHANGED <<profile, run, mux, lockReply, spawned, syncVars, agents, clientID, links, events>>

\* request_write: ... && !h.isWriter(...)
RequestIsWriter(k) ==
  /\ cl[k].pc = "rw_is"
  /\ cl' = [cl EXCEPT ![k] =
       IF isWriter(agents, cl[k].agentID, cl[k].id) THEN [@ EXCEPT !.pc = "rw_set"]
       ELSE OwnWrite(@, k, DeniedMsg("another_writer"), "loop")]
  /\ UNCHANGED <<profile, run, mux, lockReply, spawned, syncVars, agents, clientID, links, events>>

\* request_write: h.setWriter, then the broadcast
RequestSetWriter(k) ==
  /\ cl[k].pc = "rw_set"
  /\ agents' = setWriter(agents, cl[k].agentID, cl[k].id)
  /\ cl' = [cl EXCEPT ![k].pc = "bc_snap", ![k].bret = "loop"]
  /\ UNCHANGED <<profile, run, mux, lockReply, spawned, syncVars, clientID, links, events>>

\* release_write: h.clearWriter, then the broadcast
ReleaseClearWriter(k) ==
  /\ cl[k].pc = "rl_clear"
  /\ agents' = clearWriter(agents, cl[k].agentID)
  /\ cl' = [cl EXCEPT ![k].pc = "bc_snap", ![k].bret = "loop"]
  /\ UNCHANGED <<profile, run, mux, lockReply, spawned, syncVars, clientID, links, events>>

\* broadcastWriteStatus: clients := h.clientSnapshot(agentID)
BroadcastSnapshot(k) ==
  /\ cl[k].pc = "bc_snap"
  /\ LET clients == clientSnapshot(agents, cl[k].agentID) IN
     cl' = [cl EXCEPT ![k] =
       IF clients = {}
       THEN AfterWrite([@ EXCEPT !.ret = cl[k].bret, !.bret = ""], TRUE)
       ELSE [@ EXCEPT !.snap = clients, !.pc = "bc_writer"]]
  /\ UNCHANGED <<profile, run, mux, lockReply, spawned, syncVars, agents, clientID, links, events>>

\* broadcastWriteStatus: writer = state.writer, in a critical section of its
\* own; the write to the first client of the snapshot starts
BroadcastWriter(k) ==
  /\ cl[k].pc = "bc_writer"
  /\ \E c \in cl[k].snap :
       LET writer == agentOf(agents, cl[k].agentID).writer IN
       cl' = [cl EXCEPT ![k] =
         [@ EXCEPT !.bw = writer, !.pc = "cw", !.ret = "bc", !.to = connOf(c),
                   !.out = WriteStatusMsg(c = writer), !.snap = @ \ {c}]]
  /\ UNCHANGED <<profile, run, mux, lockReply, spawned, syncVars, agents, clientID, links, events>>

\* a faulty forwardFrame: a protocol-2 frame is forwarded whatever session it
\* names
forwardFrameAnySession(c) ==
  IF c.proto < 2 THEN Encode(c.session, c.inp)
  ELSE LET d == Decode(c.inp) IN
    IF ~d.ok THEN [ok |-> FALSE, frame |-> NoFrame]
    ELSE Encode(d.sid, d.payload)

\* binary message: the frame for the agent, if any
forwardFrame(c) ==
  IF c.proto < 2 THEN Encode(c.session, c.inp)
  ELSE LET d == Decode(c.inp) IN
    IF ~d.ok THEN [ok |-> FALSE, frame |-> NoFrame]
    ELSE IF d.sid # c.active THEN [ok |-> FALSE, frame |-> NoFrame]
    ELSE Encode(d.sid, d.payload)

\* binary message: h.isWriter, then the frame is built and its write begins
BinaryIsWriter(k) ==
  /\ cl[k].pc = "b_is"
  /\ cl' = [cl EXCEPT ![k] =
       IF ~isWriter(agents, cl[k].agentID, cl[k].id)
         THEN Loop(@)
       ELSE IF ~forwardFrame(cl[k]).ok
         THEN Loop(@)
       ELSE AgentWrite(@, BinaryMsg(forwardFrame(cl[k]).frame), "loop")]
  /\ UNCHANGED <<profile, run, mux, lockReply, spawned, syncVars, agents, clientID, links, events>>

\* the deferred h.removeClient, and the broadcast when the client was the writer
ClientRemove(k) ==
  /\ cl[k].pc = "d_remove"
  /\ agents' = removeClient(agents, cl[k].agentID, cl[k].id)
  /\ cl' = [cl EXCEPT ![k] =
       IF removeClientWasWriter(agents, cl[k].agentID, cl[k].id)
       THEN [@ EXCEPT !.pc = "bc_snap", !.bret = "d_close"]
       ELSE [@ EXCEPT !.pc = "d_close"]]
  /\ UNCHANGED <<profile, run, mux, lockReply, spawned, syncVars, clientID, links, events>>

\* the deferred conn.Close
ClientClose(k) ==
  /\ cl[k].pc = "d_close"
  /\ cl' = [cl EXCEPT ![k] =
       [InitClient EXCEPT !.pc = "closed", !.id = cl[k].id,
                          !.proto = cl[k].proto, !.bound = cl[k].bound,
                          !.rcv = cl[k].rcv, !.failed = cl[k].failed,
                          !.errs = cl[k].errs]]
  /\ UNCHANGED <<profile, run, mux, lockReply, spawned, syncVars, agents, clientID, links, events>>

\* ------------------------------------------------------------- admin
\* LockHandler: h.setWebWritable(agent_id, session_id, enabled) and the
\* status of the response
AdminLock ==
  /\ events < EventBudget(profile)
  /\ \E in \in AdminInputs(profile) :
       /\ agents' = setWebWritable(agents, in.agentID, in.sessionID, in.enabled)
       /\ lockReply' =
            IF "lock" \in Logged(profile)
            THEN [agentID |-> in.agentID, sessionID |-> in.sessionID,
                  enabled |-> in.enabled, n |-> events + 1,
                  status |-> IF setWebWritableOk(agents, in.agentID,
                                                 in.sessionID)
                             THEN StatusNoContent ELSE StatusNotFound]
            ELSE lockReply
  /\ events' = events + 1
  /\ UNCHANGED <<profile, run, mux, spawned, syncVars, clientID, links, cl>>

\* ------------------------------------------------------------- agent link
\* ServeAgentConn: h.registerAgent
AgentConnect(l) ==
  /\ links[l].pc = "unused"
  /\ l \in LinksOf(profile)
  /\ IF l = 1 THEN TRUE ELSE links[l - 1].pc # "unused"
  /\ events < EventBudget(profile)
  /\ \E a \in AgentIds :
       /\ agents' = registerAgent(agents, a, l)
       /\ links' = [links EXCEPT ![l].pc = "read", ![l].agentID = a,
                                 ![l].open = TRUE]
  /\ events' = events + 1
  /\ UNCHANGED <<profile, run, mux, lockReply, spawned, syncVars, clientID, cl>>

\* a faulty filter: a protocol-1 client gets the frames of its bound session
\* only, and none when it is bound to no session
fanOutTargetsBoundOnly(snapshot, sid) ==
  {c \in snapshot :
     ~(cl[connOf(c)].proto < 2 /\ sid # cl[connOf(c)].bound)}

\* the clients of the snapshot that the frame (sid, payload) is written to
fanOutTargets(snapshot, sid) ==
  {c \in snapshot :
     ~(cl[connOf(c)].proto < 2 /\ cl[connOf(c)].bound # NoSession
       /\ sid # cl[connOf(c)].bound)}

\* what the fan-out writes to client c: the payload in protocol 1, the frame
\* as received in protocol 2
fanOutMsg(c, data, payload) ==
  IF cl[connOf(c)].proto < 2 THEN BinaryMsg(payload) ELSE BinaryMsg(data)

\* read loop, binary message: decode, snapshot; the write to the first client
\* starts (pc "fan": a write on conn `to` is under way)
AgentRecvBinary(l) ==
  /\ links[l].pc = "read"
  /\ links[l].open
  /\ events < EventBudget(profile)
  /\ \E data \in AgentFrames(profile, l, events + 1) :
       LET d == Decode(data)
           all == clientSnapshot(agents, links[l].agentID)
           targets == fanOutTargets(all, d.sid)
       IN IF ~d.ok \/ targets = {} THEN links' = links
          ELSE \E c \in targets :
            links' = [links EXCEPT ![l] =
              [@ EXCEPT !.pc = "fan", !.snap = targets \ {c}, !.to = connOf(c),
                        !.sid = d.sid, !.payload = d.payload, !.data = data,
                        !.out = fanOutMsg(c, data, d.payload),
                        !.all = all, !.done = {}]]
  /\ events' = events + 1
  /\ UNCHANGED <<profile, run, mux, lockReply, spawned, syncVars, agents, clientID, cl>>

\* a faulty fan-out loop: the first client of the snapshot is written twice
AgentFanEndTwice(l) ==
  /\ links[l].pc = "fan"
  /\ cl' = IF cl[links[l].to].open
           THEN [cl EXCEPT ![links[l].to] = Received(@, links[l].out)]
           ELSE cl
  /\ IF links[l].snap = {} /\ links[l].done # {}
     THEN links' = [links EXCEPT ![l] =
            [@ EXCEPT !.pc = "read", !.to = 0, !.out = NoMsg, !.sid = NoSession,
                      !.payload = NoFrame, !.data = NoFrame,
                      !.all = {}, !.done = {}]]
     ELSE \E c \in links[l].snap \cup ({cl[links[l].to].id} \ links[l].done) :
            links' = [links EXCEPT ![l] =
              [@ EXCEPT !.snap = @ \ {c}, !.to = connOf(c),
                        !.out = fanOutMsg(c, links[l].data, links[l].payload),
                        !.done = @ \cup {cl[links[l].to].id}]]
  /\ UNCHANGED <<profile, run, mux, lockReply, spawned, syncVars, agents, clientID, events>>

\* fan-out: the write returns, the message is delivered if the conn is open,
\* and the write to the next client starts
AgentFanEnd(l) ==
  /\ links[l].pc = "fan"
  /\ cl' = IF cl[links[l].to].open
           THEN [cl EXCEPT ![links[l].to] = Received(@, links[l].out)]
           ELSE cl
  /\ IF links[l].snap = {}
     THEN links' = [links EXCEPT ![l] =
            [@ EXCEPT !.pc = "read", !.to = 0, !.out = NoMsg, !.sid = NoSession,
                      !.payload = NoFrame, !.data = NoFrame,
                      !.all = {}, !.done = {}]]
     ELSE \E c \in links[l].snap :
            links' = [links EXCEPT ![l] =
              [@ EXCEPT !.snap = @ \ {c}, !.to = connOf(c),
                        !.out = fanOutMsg(c, links[l].data, links[l].payload),
                        !.done = @ \cup {cl[links[l].to].id}]]
  /\ UNCHANGED <<profile, run, mux, lockReply, spawned, syncVars, agents, clientID, events>>

\* ReadMessage fails; the deferred h.unregisterAgent closes the clients' conns
AgentReadError(l) ==
  /\ links[l].pc = "read"
  /\ agents' = unregisterAgent(agents, links[l].agentID, l)
  /\ cl' = [k \in Conns |->
       IF /\ unregisterApplies(agents, links[l].agentID, l)
          /\ cl[k].id \in agentOf(agents, links[l].agentID).clients
       THEN [cl[k] EXCEPT !.open = FALSE] ELSE cl[k]]
  /\ links' = [links EXCEPT ![l].pc = "unreg"]
  /\ events < EventBudget(profile)
  /\ events' = events + 1
  /\ UNCHANGED <<profile, run, mux, lockReply, spawned, syncVars, clientID>>

\* the deferred conn.Close of the agent conn
AgentClose(l) ==
  /\ links[l].pc = "unreg"
  /\ links' = [links EXCEPT ![l].pc = "closed", ![l].open = FALSE]
  /\ UNCHANGED <<profile, run, mux, lockReply, spawned, syncVars, agents, clientID, cl, events>>

\* ------------------------------------------------------------- session sync
\* syncSessions -> requestSessions: currentAgent; with an agent, a fresh
\* request id and its channel in the pending table
SyncStart(a) ==
  /\ spawned[a] > 0
  /\ spawned' = [spawned EXCEPT ![a] = @ - 1]
  /\ IF currentAgent(agents, a) = NoLink
     THEN UNCHANGED syncVars
     ELSE /\ reqID' = reqID + 1
          /\ pendingSessions' = (reqID' :> <<>>) @@ pendingSessions
          /\ syncs' = syncs \cup
               {[req |-> reqID', agentID |-> a, agent |-> currentAgent(agents, a),
                 pc |-> "aw", got |-> <<>>, all |-> {}, snap |-> {},
                 to |-> 0]}
  /\ UNCHANGED <<profile, run, mux, lockReply, agents, clientID, links, cl, events>>

\* agent.writeJSON(list_sessions): writeMu.Lock
SyncWriteBegin(s) ==
  /\ s.pc = "aw"
  /\ Lock(links[s.agent].mu)
  /\ links' = [links EXCEPT ![s.agent].mu = SyncTask(s)]
  /\ syncs' = (syncs \ {s}) \cup {[s EXCEPT !.pc = "awing"]}
  /\ UNCHANGED <<profile, run, mux, lockReply, spawned, reqID, pendingSessions, agents, clientID, cl,
                 events>>

\* the write returns: writeMu.Unlock; the task waits for the reply
SyncWriteEnd(s) ==
  /\ s.pc = "awing"
  /\ links' = [links EXCEPT ![s.agent] =
                 [Written(@, ListSessionsMsg(s.req)) EXCEPT !.mu = NoTask]]
  /\ syncs' = (syncs \ {s}) \cup {[s EXCEPT !.pc = "wait"]}
  /\ UNCHANGED <<profile, run, mux, lockReply, spawned, reqID, pendingSessions, agents, clientID, cl,
                 events>>

\* a faulty deferred delete: the entry stays in the pending table
dropPendingKeeps(pending, req) == pending

\* the pending table without the entry of request id req
dropPending(pending, req) ==
  [r \in DOMAIN pending \ {req} |-> pending[r]]

\* select: time.After(2s) fires while the channel is empty; the deferred
\* delete of the pending entry
SyncTimeout(s) ==
  /\ s.pc = "wait"
  /\ pendingSessions[s.req] = <<>>
  /\ pendingSessions' = dropPending(pendingSessions, s.req)
  /\ syncs' = syncs \ {s}
  /\ UNCHANGED <<profile, run, mux, lockReply, spawned, reqID, agents, clientID, links, cl, events>>

\* select: the channel holds the reply; the deferred delete of the pending
\* entry; syncSessions goes on to broadcastSessions
SyncReply(s) ==
  /\ s.pc = "wait"
  /\ pendingSessions[s.req] # <<>>
  /\ pendingSessions' = dropPending(pendingSessions, s.req)
  /\ syncs' = (syncs \ {s}) \cup
       {[s EXCEPT !.pc = "snap", !.got = pendingSessions[s.req][1]]}
  /\ UNCHANGED <<profile, run, mux, lockReply, spawned, reqID, agents, clientID, links, cl, events>>

\* broadcastSessions: the snapshot; the write to its first client starts
SyncSnapshot(s) ==
  /\ s.pc = "snap"
  /\ LET clients == clientSnapshot(agents, s.agentID) IN
     IF clients = {} THEN syncs' = syncs \ {s}
     ELSE \E c \in clients :
       syncs' = (syncs \ {s}) \cup
         {[s EXCEPT !.pc = "cw", !.all = clients, !.snap = clients \ {c},
                    !.to = connOf(c)]}
  /\ UNCHANGED <<profile, run, mux, lockReply, spawned, reqID, pendingSessions, agents, clientID,
                 links, cl, events>>

\* broadcastSessions: a write returns, and the write to the next client starts
SyncClientWriteEnd(s) ==
  /\ s.pc = "cw"
  /\ cl' = IF cl[s.to].open
           THEN [cl EXCEPT ![s.to] = Received(@, SessionsSyncMsg(s.got))]
           ELSE cl
  /\ IF s.snap = {} THEN syncs' = syncs \ {s}
     ELSE \E c \in s.snap :
       syncs' = (syncs \ {s}) \cup
         {[s EXCEPT !.snap = @ \ {c}, !.to = connOf(c)]}
  /\ UNCHANGED <<profile, run, mux, lockReply, spawned, reqID, pendingSessions, agents, clientID,
                 links, events>>

\* a faulty deliverSessions: a reply replaces the reply the channel holds
deliverSessionsOverwrite(pending, requestID, sessions) ==
  IF requestID \notin DOMAIN pending THEN pending
  ELSE [pending EXCEPT ![requestID] = <<sessions>>]

\* deliverSessions: a non-blocking send on the channel of the request id
deliverSessions(pending, requestID, sessions) ==
  IF requestID \notin DOMAIN pending THEN pending
  ELSE IF pending[requestID] # <<>> THEN pending
  ELSE [pending EXCEPT ![requestID] = <<sessions>>]

\* read loop, text message: sessions{request_id, sessions}
AgentRecvSessions(l) ==
  /\ links[l].pc = "read"
  /\ links[l].open
  /\ events < EventBudget(profile)
  /\ \E requestID \in RequestsAnswered(profile, links[l].wlog, reqID) :
     \E sessions \in SessionListsAt(profile, l, requestID, events + 1) :
       pendingSessions' = deliverSessions(pendingSessions, requestID, sessions)
  /\ events' = events + 1
  /\ UNCHANGED <<profile, run, mux, lockReply, spawned, syncs, reqID, agents, clientID, links, cl>>

\* read loop, text message of another type than sessions: nothing is done
\* with it, and the loop reads on with the message in its local msg
AgentRecvControl(l) ==
  /\ links[l].pc = "read"
  /\ links[l].open
  /\ events < EventBudget(profile)
  /\ \E m \in AgentControls(profile, links[l].wlog) :
       links' = [links EXCEPT ![l].msg = m]
  /\ events' = events + 1
  /\ UNCHANGED <<profile, run, mux, lockReply, spawned, syncVars, agents, clientID, cl>>

SyncStep(s) ==
  \/ SyncWriteBegin(s)
  \/ SyncWriteEnd(s)
  \/ SyncTimeout(s)
  \/ SyncReply(s)
  \/ SyncSnapshot(s)
  \/ SyncClientWriteEnd(s)

\* ------------------------------------------------------------- specification
ClientStep(k) ==
  \/ ClientHandshake(k)
  \/ ClientAdd(k)
  \/ ClientSetSession(k)
  \/ AgentWriteBegin(k)
  \/ AgentWriteEnd(k)
  \/ ClientWriteEnd(k)
  \/ ClientInitialStatus(k)
  \/ ClientRead(k)
  \/ ClientReadError(k)
  \/ RequestHasWriter(k)
  \/ RequestIsWriter(k)
  \/ RequestSetWriter(k)
  \/ BroadcastSnapshot(k)
  \/ BroadcastWriter(k)
  \/ BinaryIsWriter(k)
  \/ ClientRemove(k)
  \/ ClientClose(k)

AgentStep(l) ==
  \/ AgentConnect(l)
  \/ AgentReadError(l)
  \/ AgentClose(l)

AgentOutput(l) ==
  \/ AgentRecvBinary(l)
  \/ AgentFanEnd(l)

NextCore ==
  \/ \E k \in Conns : ClientStep(k) \/ ReleaseClearWriter(k)
  \/ \E l \in Links : AgentStep(l)

NextSync ==
  \/ \E l \in Links : AgentRecvSessions(l)
  \/ \E a \in AgentIds : SyncStart(a)
  \/ \E s \in syncs : SyncStep(s)

\* writer arbitration with the administrative lock
InitArbitration == InitOf("arbitration")
NextArbitration == NextCore \/ AdminLock
SpecArbitration == InitArbitration /\ [][NextArbitration]_vars

\* multiplexed input
InitMux == InitOf("mux")
NextMux ==
  \/ \E k \in Conns : ClientStep(k)
  \/ \E l \in Links : AgentConnect(l)
SpecMux == InitMux /\ [][NextMux]_vars

\* the writers of the links
InitLinks == InitOf("links")
NextLinks == NextCore \/ (\E l \in Links : AgentOutput(l)) \/ NextSync
SpecLinks == InitLinks /\ [][NextLinks]_vars

\* the handshake and the exit of a client, without its read loop
ClientLifecycle(k) ==
  \/ ClientHandshake(k)
  \/ ClientAdd(k)
  \/ ClientSetSession(k)
  \/ AgentWriteBegin(k)
  \/ AgentWriteEnd(k)
  \/ ClientWriteEnd(k)
  \/ ClientInitialStatus(k)
  \/ ClientReadError(k)
  \/ ClientRemove(k)
  \/ ClientClose(k)

\* the output of the agents
InitOutput == InitOf("output")
NextOutput ==
  \/ \E k \in Conns : ClientLifecycle(k)
  \/ \E l \in Links : AgentStep(l) \/ AgentOutput(l)
SpecOutput == InitOutput /\ [][NextOutput]_vars

\* the controls of the clients, with session syncs that the agent leaves
\* unanswered
InitControl == InitOf("control")
NextControl ==
  \/ \E k \in Conns :
       \/ ClientHandshake(k)
       \/ ClientAdd(k)
       \/ ClientSetSession(k)
       \/ AgentWriteBegin(k)
       \/ AgentWriteEnd(k)
       \/ ClientWriteEnd(k)
       \/ ClientInitialStatus(k)
       \/ ClientRead(k)
  \/ \E l \in Links : AgentConnect(l)
  \/ \E a \in AgentIds : SyncStart(a)
  \/ \E s \in syncs : SyncWriteBegin(s) \/ SyncWriteEnd(s) \/ SyncTimeout(s)
SpecControl == InitControl /\ [][NextControl]_vars

\* the handshakes of the clients
InitHandshake == InitOf("handshake")
NextHandshake ==
  \/ \E k \in Conns : ClientLifecycle(k)
  \/ \E l \in Links : AgentStep(l)
SpecHandshake == InitHandshake /\ [][NextHandshake]_vars

\* the session syncs of protocol-2 clients
InitSessions == InitOf("sessions")
NextSessions ==
  \/ \E k \in Conns : ClientLifecycle(k) \/ ClientRead(k)
  \/ \E l \in Links : AgentStep(l)
  \/ NextSync
SpecSessions == InitSessions /\ [][NextSessions]_vars

\* the request ids of a run of the profile sessions: a request follows the
\* connect of the agent and one handshake or control of a client
RequestIds == 1..(MaxEvents - 2)

\* the session syncs of one client
InitRequests == InitOf("requests")
SpecRequests == InitRequests /\ [][NextSessions]_vars

\* the session syncs of one client when every goroutine that can run does
\* run and every write on an agent connection returns: no sync and no client
\* task stays forever before a step it can take (the timer of a waiting
\* request fires after two seconds)
FairRequests ==
  /\ SpecRequests
  /\ \A r \in RequestIds : WF_vars(\E s \in syncs : s.req = r /\ SyncStep(s))
  /\ \A k \in Conns : WF_vars(AgentWriteEnd(k))

\* the administrative lock calls and their responses
InitAdmin == InitOf("admin")
NextAdmin ==
  \/ \E k \in Conns :
       \/ ClientLifecycle(k)
       \/ ClientRead(k)
       \/ RequestHasWriter(k)
       \/ RequestIsWriter(k)
       \/ RequestSetWriter(k)
       \/ BroadcastSnapshot(k)
       \/ BroadcastWriter(k)
  \/ \E l \in Links : AgentStep(l)
  \/ AdminLock
SpecAdmin == InitAdmin /\ [][NextAdmin]_vars

\* the requests for the writer slot and their denials
InitDenial == InitOf("denial")
NextDenial ==
  \/ \E k \in Conns :
       \/ ClientHandshake(k)
       \/ ClientAdd(k)
       \/ ClientSetSession(k)
       \/ AgentWriteBegin(k)
       \/ AgentWriteEnd(k)
       \/ ClientWriteEnd(k)
       \/ ClientInitialStatus(k)
       \/ ClientRead(k)
       \/ RequestHasWriter(k)
       \/ RequestIsWriter(k)
       \/ RequestSetWriter(k)
       \/ ReleaseClearWriter(k)
       \/ BroadcastSnapshot(k)
       \/ BroadcastWriter(k)
  \/ \E l \in Links : AgentConnect(l)
  \/ AdminLock
SpecDenial == InitDenial /\ [][NextDenial]_vars

\* the protocol violations of attached clients
InitFatal == InitOf("fatal")
NextFatal ==
  \/ \E k \in Conns :
       \/ ClientHandshake(k)
       \/ ClientAdd(k)
       \/ ClientSetSession(k)
       \/ AgentWriteBegin(k)
       \/ AgentWriteEnd(k)
       \/ ClientWriteEnd(k)
       \/ ClientInitialStatus(k)
       \/ ClientRead(k)
       \/ RequestHasWriter(k)
       \/ RequestIsWriter(k)
       \/ RequestSetWriter(k)
       \/ BroadcastSnapshot(k)
       \/ BroadcastWriter(k)
       \/ ClientRemove(k)
       \/ ClientClose(k)
  \/ \E l \in Links : AgentConnect(l)
SpecFatal == InitFatal /\ [][NextFatal]_vars

\* ------------------------------------------------------------- agent client
\* what Run and its peers leave alone
hubVars == <<agents, clientID, links, cl, spawned, syncs, reqID,
             pendingSessions, lockReply, mux, profile>>

\* a faulty closeSession: the session is closed and stays in the map
closeSessionKeeps(sessions, id) == sessions

\* closeSession: the map without the session
closeSession(sessions, id) == sessions \ {id}

\* closeAll: the map after every session of it was closed and deleted
closeAll(sessions) == {}

\* what closing the sessions ids of the map does to Run: done is closed,
\* which ends the output goroutine, and sess.Close is called
Closing(r, ids) ==
  [r EXCEPT !.live = @ \ ids,
            !.closed = [id \in SessionIds |->
                          IF id \in ids THEN @[id] + 1 ELSE @[id]]]

\* attachSession(id) when Manager.Attach succeeds (ok) or fails: a session
\* that is in the map is not attached again
attachSession(r, id, ok) ==
  IF id \in r.sessions THEN r
  ELSE IF ~ok THEN [r EXCEPT !.failed = @ + 1]
  ELSE [r EXCEPT !.sessions = @ \cup {id}, !.live = @ \cup {id},
                 !.opened[id] = @ + 1]

\* the switch of Run's loop on a message m: the states of Run after it
RunSwitch(r, m) ==
  IF m.type = "attach" /\ m.sid # NoSession
    THEN {attachSession(r, m.sid, ok) : ok \in BOOLEAN}
  ELSE IF m.type = "detach" /\ m.sid # NoSession
    THEN {[Closing(r, r.sessions \cap {m.sid})
             EXCEPT !.sessions = closeSession(@, m.sid)]}
  ELSE {r}

\* the return of Run with err after closeAll
RunReturn(r, err) ==
  [Closing(r, r.sessions) EXCEPT !.pc = "returned", !.err = err,
                                 !.sessions = closeAll(@)]

\* the top of Run's loop: select on ctx.Done with a default
RunLoopTop ==
  /\ run.pc = "top"
  /\ run' = IF run.cancelled THEN RunReturn(run, "canceled")
            ELSE [run EXCEPT !.pc = "read"]
  /\ UNCHANGED <<hubVars, events>>

\* conn.ReadMessage returns a message and the switch handles it; Manager.Attach
\* of a session that is not attached succeeds or fails
RunRead ==
  /\ run.pc = "read"
  /\ run.inbox # <<>>
  /\ run' \in RunSwitch([run EXCEPT !.pc = "top", !.inbox = Tail(@)],
                        Head(run.inbox))
  /\ UNCHANGED <<hubVars, events>>

\* conn.ReadMessage returns the next message that the hub wrote on agent
\* link l, and the switch handles it
RunReadLink(l) ==
  /\ run.pc = "read"
  /\ run.pos < Len(links[l].wlog)
  /\ run' \in RunSwitch([run EXCEPT !.pc = "top", !.pos = @ + 1],
                        links[l].wlog[run.pos + 1])
  /\ UNCHANGED <<hubVars, events>>

\* conn.ReadMessage fails: the hub closed the link and nothing is left to read
RunReadError ==
  /\ run.pc = "read"
  /\ run.inbox = <<>>
  /\ ~run.open
  /\ run' = RunReturn(run, "read")
  /\ UNCHANGED <<hubVars, events>>

\* the hub writes a control on the link
HubSend ==
  /\ run.open
  /\ run.pc # "returned"
  /\ events < EventBudget(profile)
  /\ \E m \in HubControls(profile) : run' = [run EXCEPT !.inbox = Append(@, m)]
  /\ events' = events + 1
  /\ UNCHANGED hubVars

\* the hub closes the link
HubClose ==
  /\ run.open
  /\ events < EventBudget(profile)
  /\ run' = [run EXCEPT !.open = FALSE]
  /\ events' = events + 1
  /\ UNCHANGED hubVars

\* the supervisor cancels the context of Run, or that of RunWithRetry
\* between two calls of Run
RunCancel ==
  /\ ~run.cancelled
  /\ run.pc # "returned" \/ run.loop \in {"run", "delay"}
  /\ events < EventBudget(profile)
  /\ run' = [run EXCEPT !.cancelled = TRUE]
  /\ events' = events + 1
  /\ UNCHANGED hubVars

\* the output goroutine of an attached session: Output is closed and the
\* goroutine returns; the session stays in the map
OutputEnds ==
  /\ run.pc # "returned"
  /\ \E id \in run.live : run' = [run EXCEPT !.live = @ \ {id}]
  /\ UNCHANGED <<hubVars, events>>

InitAgent == InitOf("agent")
NextAgent ==
  \/ RunLoopTop
  \/ RunRead
  \/ RunReadError
  \/ HubSend
  \/ HubClose
  \/ RunCancel
SpecAgent == InitAgent /\ [][NextAgent]_vars
\* Run's goroutine is scheduled whenever it can take a step; the hub and the
\* supervisor owe nothing
FairAgent ==
  SpecAgent /\ WF_vars(RunLoopTop) /\ WF_vars(RunRead) /\ WF_vars(RunReadError)

\* Run up to its Dial, which takes no context: the connection is made or
\* Dial fails and Run returns its error
RunStart ==
  /\ run.pc = "start"
  /\ \/ run' = [run EXCEPT !.pc = "top", !.open = TRUE]
     \/ run' = [run EXCEPT !.pc = "returned", !.err = "dial"]
  /\ UNCHANGED <<hubVars, events>>

\* a faulty delay: the delay given is used as it is
retryDelayAsGiven(retry) == retry

\* the delay of RunWithRetry in seconds: 2 s when the one given is not
\* positive
retryDelay(retry) == IF retry <= 0 THEN 2 ELSE retry

\* RunWithRetry after Run returned an error (Run never returns nil): it
\* returns ctx.Err() when the context is done, and else waits in a select on
\* its timer and on ctx.Done. The select blocks with the timer just started,
\* so the case that becomes ready first is taken: the timer when the context
\* is live, which calls Run again, and ctx.Done when the context is
\* cancelled, which returns ctx.Err()
RunWithRetry ==
  /\ \/ /\ run.loop = "run"
        /\ run.pc = "returned"
        /\ run' = IF run.cancelled
                  THEN [run EXCEPT !.loop = "returned", !.ret = "canceled"]
                  ELSE [run EXCEPT !.loop = "delay",
                                   !.delay = retryDelay(run.retry)]
     \/ /\ run.loop = "delay"
        /\ run' = IF run.cancelled
                  THEN [run EXCEPT !.loop = "returned", !.ret = "canceled"]
                  ELSE [CallRun(run, run.retry) EXCEPT !.delay = run.delay]
  /\ UNCHANGED <<hubVars, events>>

\* RunWithRetry around Run
InitRetry == InitOf("retry")
NextRetry == NextAgent \/ RunStart \/ RunWithRetry
SpecRetry == InitRetry /\ [][NextRetry]_vars
\* the goroutine of RunWithRetry is scheduled whenever it can take a step,
\* and its timer fires
FairRetry ==
  SpecRetry /\ WF_vars(RunLoopTop) /\ WF_vars(RunRead) /\ WF_vars(RunReadError)
            /\ WF_vars(RunStart) /\ WF_vars(RunWithRetry)

\* Run with sessions whose output streams end
NextStream == NextAgent \/ OutputEnds
SpecStream == InitAgent /\ [][NextStream]_vars

\* ------------------------------------------------------------- codec calls
\* n bytes of one value
Run0(n, b) == [i \in 1..n |-> b]

\* the byte strings of at most n bytes over the byte values of bs
RECURSIVE BytesUpTo(_, _)
BytesUpTo(n, bs) ==
  IF n = 0 THEN {<<>>}
  ELSE LET shorter == BytesUpTo(n - 1, bs) IN
       shorter \cup {Append(f, b) : f \in shorter, b \in bs}

\* The byte strings of a call are kept in the state as their runs, each
\* <<byte, count>>: Pack and Unpack are inverse to each other.
RECURSIVE PackRuns(_, _)
PackRuns(t, starts) ==
  IF starts = {} THEN <<>>
  ELSE LET i == CHOOSE x \in starts : \A y \in starts : x <= y
           rest == starts \ {i}
           next == IF rest = {} THEN Len(t) + 1
                   ELSE CHOOSE x \in rest : \A y \in rest : x <= y
       IN <<<<t[i], next - i>>>> \o PackRuns(t, rest)

Pack(t) == PackRuns(t, {i \in 1..Len(t) : i = 1 \/ t[i] # t[i - 1]})

RECURSIVE Unpack(_)
Unpack(r) ==
  IF r = <<>> THEN <<>> ELSE Run0(r[1][2], r[1][1]) \o Unpack(Tail(r))

\* session ids given to Encode: none, short ones, and ids around the lengths
\* at which the second byte of the prefix and the prefix itself overflow
SidInputs ==
  {Pack(s) : s \in BytesUpTo(2, {0, 1, 255})}
  \cup {<<<<97, n>>>> : n \in {255, 256, 257, MaxSidLen - 1, MaxSidLen,
                              MaxSidLen + 1}}

\* payloads given to Encode
PayloadInputs == {Pack(p) : p \in {<<>>, <<0>>, <<255>>, <<0, 1, 7>>, <<0, 0>>}}

\* frames given to Decode: the short ones, and frames that declare 255, 256
\* and MaxSidLen bytes of session id and hold as many, one less or one more
FrameInputs ==
  {Pack(d) : d \in BytesUpTo(MaxFrameLen, {0, 1, 2})}
  \cup {Pack(<<n \div 256, n % 256>>) \o <<<<97, n + d>>>> :
          n \in {255, 256, MaxSidLen}, d \in {-1, 0, 1}}

MuxInputs ==
  {[NoMux EXCEPT !.pc = "encode", !.sid = s, !.payload = p] :
     s \in SidInputs, p \in PayloadInputs}
  \cup {[NoMux EXCEPT !.pc = "decode", !.data = d] : d \in FrameInputs}

codecRest == <<agents, clientID, links, cl, spawned, syncs, reqID,
               pendingSessions, lockReply, run, events, profile>>

\* muxframe.Encode(sid, payload)
MuxEncode ==
  /\ mux.pc = "encode"
  /\ LET e == Encode(Unpack(mux.sid), Unpack(mux.payload)) IN
     mux' = [mux EXCEPT !.pc = "encoded", !.enc.ok = e.ok,
                        !.enc.frame = Pack(e.frame)]
  /\ UNCHANGED codecRest

\* muxframe.Decode of the frame that Encode returned
MuxDecodeEncoded ==
  /\ mux.pc = "encoded"
  /\ mux.enc.ok
  /\ LET d == Decode(Unpack(mux.enc.frame)) IN
     mux' = [mux EXCEPT !.pc = "roundtrip", !.dec.ok = d.ok,
                        !.dec.sid = Pack(d.sid),
                        !.dec.payload = Pack(d.payload)]
  /\ UNCHANGED codecRest

\* muxframe.Decode(data)
MuxDecode ==
  /\ mux.pc = "decode"
  /\ LET d == Decode(Unpack(mux.data)) IN
     mux' = [mux EXCEPT !.pc = "decoded", !.dec.ok = d.ok,
                        !.dec.sid = Pack(d.sid),
                        !.dec.payload = Pack(d.payload)]
  /\ UNCHANGED codecRest

InitCodec == InitRest("codec") /\ mux \in MuxInputs
NextCodec == MuxEncode \/ MuxDecodeEncoded \/ MuxDecode
SpecCodec == InitCodec /\ [][NextCodec]_vars

\* session lists that arrive on either of two agent connections
InitCross == InitOf("cross")
NextCross ==
  \/ \E k \in Conns : ClientLifecycle(k)
  \/ \E l \in Links : AgentStep(l)
  \/ NextSync
SpecCross == InitCross /\ [][NextCross]_vars

\* two session syncs of one client that are in flight together
InitOverlap == InitOf("overlap")
NextOverlap ==
  \/ \E k \in Conns : ClientLifecycle(k) \/ ClientRead(k)
  \/ \E l \in Links : AgentStep(l)
  \/ NextSync
SpecOverlap == InitOverlap /\ [][NextOverlap]_vars

\* the hub with the agent client on its one agent link
InitShared == InitOf("shared")
NextShared ==
  \/ \E k \in Conns : ClientLifecycle(k) \/ ClientRead(k)
  \/ \E l \in LinksOf("shared") : AgentConnect(l) \/ RunReadLink(l)
  \/ RunLoopTop
SpecShared == InitShared /\ [][NextShared]_vars

\* the failed attaches an agent reports
InitRelay == InitOf("relay")
NextRelay ==
  \/ \E k \in Conns : ClientLifecycle(k) \/ ClientRead(k)
  \/ \E l \in Links : AgentStep(l) \/ AgentRecvControl(l)
SpecRelay == InitRelay /\ [][NextRelay]_vars

\* the same when every goroutine that can run does run and every write
\* returns: a step of the hub that needs no further message from a peer is
\* not put off forever
FairRelay == SpecRelay /\ WF_vars(NextRelay /\ events' = events)

\* ------------------------------------------------------------- properties
\* the client ids handed out so far
ClientIds == 1..clientID

\* a step in which client task k enters agent.writeMessage with an input
\* frame, on the open link of the current record of its agent
StartsForwarding(k) ==
  /\ cl[k].pc = "aw"
  /\ cl'[k].pc = "awing"
  /\ cl[k].out.type = "binary"
  /\ links[cl[k].agent].open
  /\ currentAgent(agents, cl[k].agentID) = cl[k].agent

\* no client handler is in the middle of a message, of its handshake or of
\* its deferred calls
Quiescent == \A k \in Conns : cl[k].pc \in {"idle", "loop", "closed"}

C2_ForwardedByWriter ==
  [][\A k \in Conns :
       StartsForwarding(k) =>
         /\ isWriter(agents, cl[k].agentID, cl[k].id)
         /\ cl[k].focus
         /\ webWritable(agents, cl[k].agentID)]_vars

\* C3: the writer of an agent record never changes from one client to another
\* client directly: the holder released it or was removed in between.
C3_WriterNotStolen ==
  [][\A a \in AgentIds :
       (/\ agents[a].conn = agents'[a].conn
        /\ agents[a].writer # NoClient
        /\ agents'[a].writer # NoClient)
       => agents'[a].writer = agents[a].writer]_vars

\* C4: no step makes a client the writer in a state where web_writable is
\* false.
C4_NoGrantWhileLocked ==
  [][\A a \in AgentIds :
       (/\ agents[a].conn = agents'[a].conn
        /\ agents'[a].writer # agents[a].writer
        /\ agents'[a].writer # NoClient)
       => agents[a].write]_vars

\* C5: a client whose claims have write=false is never the writer, none of
\* its binary messages is forwarded, and each of its request_write messages
\* is answered with write_denied{not_authorized}.
C5_NoWriteClaimNoInput ==
  \A k \in Conns :
    (cl[k].id # NoClient /\ ~cl[k].write) =>
      /\ \A a \in AgentIds : ~isWriter(agents, a, cl[k].id)
      /\ ~(cl[k].pc \in {"aw", "awing"} /\ cl[k].out.type = "binary")
      /\ cl[k].pc # "b_is"
      /\ cl[k].req = "request_write" =>
           /\ cl[k].pc = "cw"
           /\ cl[k].to = k
           /\ cl[k].out = DeniedMsg("not_authorized")

\* C5 witness: a registered client without the write claim has sent
\* request_write and is being answered.
C5_Witness ==
  \E k \in Conns :
    /\ cl[k].id \in agents["agent1"].clients
    /\ ~cl[k].write
    /\ cl[k].req = "request_write"

\* C6: every input frame on its way to the agent link is a well-formed mux
\* frame carrying the payload of the client's message; its session id is the
\* claim session of a protocol-1 client and the active session of a
\* protocol-2 client, whose message named that session.
C6_ForwardedFrameSession ==
  \A k \in Conns :
    (cl[k].pc \in {"aw", "awing"} /\ cl[k].out.type = "binary") =>
      LET d == Decode(cl[k].out.frame) IN
      /\ d.ok
      /\ IF cl[k].proto < 2
         THEN d.sid = cl[k].session /\ d.payload = cl[k].inp
         ELSE /\ d.sid = cl[k].active
              /\ Decode(cl[k].inp).ok
              /\ Decode(cl[k].inp).sid = cl[k].active
              /\ d.payload = Decode(cl[k].inp).payload

\* C6 witness: a protocol-2 client that switched its active session to S2 has
\* a frame of S2 being written to the agent link.
C6_Witness ==
  \E k \in Conns :
    /\ cl[k].pc = "awing"
    /\ cl[k].out.type = "binary"
    /\ cl[k].proto = 2
    /\ cl[k].active = S2
    /\ Decode(cl[k].out.frame).sid = S2

\* the tasks in the middle of a write on agent link l
AgentLinkWriters(l) ==
  {ClientTask(k) : k \in {j \in Conns : cl[j].pc = "awing" /\ cl[j].agent = l}}
    \cup {SyncTask(s) : s \in {t \in syncs : t.pc = "awing" /\ t.agent = l}}

\* C7: at most one task is in the middle of a write on an agent link.
C7_AgentWritesExclusive ==
  \A l \in Links : Cardinality(AgentLinkWriters(l)) <= 1

\* C7 witness: a client is forwarding an input frame on an agent link while a
\* session-sync task waits to write list_sessions on the same link.
C7_Witness ==
  \E k \in Conns : \E s \in syncs :
    /\ cl[k].pc = "awing"
    /\ cl[k].out.type = "binary"
    /\ s.pc = "aw"
    /\ s.agent = cl[k].agent

\* the tasks in the middle of a write on client link k
ClientLinkWriters(k) ==
  {ClientTask(j) : j \in {i \in Conns : cl[i].pc = "cw" /\ cl[i].to = k}}
    \cup {AgentTask(l) : l \in {m \in Links : links[m].pc = "fan" /\ links[m].to = k}}
    \cup {SyncTask(s) : s \in {t \in syncs : t.pc = "cw" /\ t.to = k}}

\* C8: at most one task is in the middle of a write on a client link.
C8_ClientWritesExclusive ==
  \A k \in Conns : Cardinality(ClientLinkWriters(k)) <= 1

\* C9: the writer of every agent record is empty or a client of the record's
\* client set.
C9_WriterIsRegistered ==
  \A a \in AgentIds :
    agents[a].writer # NoClient => agents[a].writer \in agents[a].clients

\* the record of agent a is the only one the id ever had: no other link has
\* connected
FirstRecord(a) ==
  \A l \in Links : links[l].pc = "unused" \/ agents[a].conn = l

\* C10: when no handler is in the middle of a message, the last write_status
\* every registered client received says whether it is the writer (for an
\* agent id that was registered once).
C10_StatusAgrees ==
  Quiescent =>
    \A a \in AgentIds : FirstRecord(a) =>
      \A c \in agents[a].clients :
        cl[connOf(c)].status = IF agents[a].writer = c THEN "true" ELSE "false"

\* the clients of a snapshot that are to get the frames of session sid: the
\* protocol-2 clients, and the protocol-1 clients bound to sid or to no
\* session
Subscribed(all, sid) ==
  {c \in all : \/ cl[connOf(c)].proto >= 2
               \/ cl[connOf(c)].bound = NoSession
               \/ cl[connOf(c)].bound = sid}

\* C11: while an agent link fans a frame out, the frame is decodable, the
\* clients written so far, the one being written and the ones still to be
\* written are exactly the subscribed clients of the snapshot, each once, and
\* the message being written is the frame as received for a protocol-2 client
\* and the bare payload for a protocol-1 client.
C11_FanOutDelivery ==
  \A l \in Links :
    links[l].pc = "fan" =>
      LET d == Decode(links[l].data)
          c == cl[links[l].to]
      IN /\ d.ok
         /\ links[l].done \cup {c.id} \cup links[l].snap
              = Subscribed(links[l].all, d.sid)
         /\ c.id \notin links[l].done \cup links[l].snap
         /\ links[l].done \cap links[l].snap = {}
         /\ links[l].out =
              BinaryMsg(IF c.proto >= 2 THEN links[l].data ELSE d.payload)

\* C11 witness: a frame is fanned out to one of two clients of the snapshot,
\* a protocol-1 client bound to no session; the other is bound to another
\* session.
C11_Witness ==
  \E l \in Links :
    /\ links[l].pc = "fan"
    /\ Cardinality(links[l].all) = 2
    /\ Cardinality(Subscribed(links[l].all, links[l].sid)) = 1
    /\ cl[links[l].to].proto < 2
    /\ cl[links[l].to].bound = NoSession

\* the payloads of the output frames client link k received, in order
ReceivedPayloads(k) ==
  [i \in 1..Len(cl[k].rcv) |->
     IF cl[k].proto < 2 THEN cl[k].rcv[i] ELSE Decode(cl[k].rcv[i]).payload]

\* C12: on every client link, the output frames of one session sent by one
\* agent link arrive in the order in which the agent sent them, each once.
C12_OutputOrder ==
  \A k \in Conns :
    LET p == ReceivedPayloads(k) IN
    \A i, j \in 1..Len(p) :
      (i < j /\ p[i][1] = p[j][1] /\ p[i][2] = p[j][2]) => p[i][3] < p[j][3]

\* C12 witness: a client link received two output frames of one session from
\* one agent link.
C12_Witness ==
  \E k \in Conns :
    LET p == ReceivedPayloads(k) IN
    \E i, j \in 1..Len(p) : i < j /\ p[i][1] = p[j][1] /\ p[i][2] = p[j][2]

\* the controls of the read loop of client link k that were written on agent
\* link l, in the order of the writes
ControlsWritten(l, k) ==
  SelectSeq(links[l].wlog, LAMBDA m : Len(m.sid) = 2 /\ m.sid[1] = k)

\* C13: the attach, detach and resize controls of one client are written on
\* the agent link in the order in which the client sent them, each once.
C13_ControlOrder ==
  \A l \in Links : \A k \in Conns :
    LET w == ControlsWritten(l, k) IN
    \A i, j \in 1..Len(w) : i < j => w[i].sid[2] < w[j].sid[2]

\* C13 witness: an attach and a detach of one client were written on an
\* agent link and the attach of another client's handshake between them,
\* while a session sync holds the link's write lock.
C13_Witness ==
  \E l \in Links : \E k \in Conns : \E s \in syncs :
    \E i, j \in 1..Len(links[l].wlog) :
      /\ i + 1 < j
      /\ ControlsWritten(l, k) = <<links[l].wlog[i], links[l].wlog[j]>>
      /\ links[l].wlog[i].type = "attach"
      /\ links[l].wlog[j].type = "detach"
      /\ links[l].wlog[i + 1].sid = S1
      /\ links[l].mu = SyncTask(s)

\* C14: a step that replaces the record of an agent id by the record of a new
\* link closes the prior link and the links of all clients of the prior
\* record.
C14_ReplacedLinkEvicted ==
  [][\A a \in AgentIds :
       (/\ agents[a].conn # NoLink
        /\ agents'[a].conn \notin {NoLink, agents[a].conn})
       => /\ ~links'[agents[a].conn].open
          /\ \A c \in agents[a].clients : ~cl'[connOf(c)].open]_vars

\* C15: when the read loop of an agent link exits, unregisterAgent removes
\* the record and closes the links of its clients if the record is that of
\* the link, and leaves the registry and the clients as they are if it is
\* not; the only thing the link does after that is to close.
C15_AgentExit ==
  [][\A l \in Links :
       /\ (links[l].pc = "read" /\ links'[l].pc = "unreg") =>
            LET a == links[l].agentID IN
            IF agents[a].conn = l
              THEN /\ agents'[a] = NilAgent
                   /\ \A c \in agents[a].clients : ~cl'[connOf(c)].open
              ELSE agents' = agents /\ cl' = cl
       /\ (links[l].pc = "unreg" /\ links'[l].pc # "unreg") =>
            links'[l].pc = "closed" /\ ~links'[l].open
       /\ (links[l].pc = "closed") =>
            links'[l].pc = "closed" /\ ~links'[l].open]_vars

\* C15 witness: a link whose record was replaced has exited and is closed,
\* and the record of the newer link still has a client whose link is open.
C15_Witness ==
  \E l \in Links : \E a \in AgentIds :
    /\ links[l].pc = "closed"
    /\ links[l].agentID = a
    /\ agents[a].conn \notin {NoLink, l}
    /\ \E c \in agents[a].clients : cl[connOf(c)].open

\* the codes a handshake may fail with for a first message and claims, read
\* off the conditions one by one
handshakeFaults(claims, attach) ==
  LET v == attach.ProtocolVersion
      empty == claims.AgentID = NoAgentId /\ claims.SessionID = NoSession
  IN {code \in {"bad_request", "bad_version", "not_authorized"} :
        \/ code = "bad_request"
           /\ \/ attach.Type # "attach"
              \/ empty /\ NoAgentId = attach.AgentID
              \/ empty /\ NoSession = attach.SessionID
        \/ code = "bad_version" /\ v \notin {0, 1, 2}
        \/ code = "not_authorized" /\ ~empty
           /\ \/ attach.AgentID \notin {NoAgentId, claims.AgentID}
              \/ v \in {0, 1} /\ attach.SessionID # claims.SessionID
              \/ v = 2 /\ claims.SessionID \notin {NoSession, attach.SessionID}}

\* the attach messages written on the agent links
AttachesForwarded ==
  {<<l, i>> \in Links \X (1..MaxEvents + 1) :
     i <= Len(links[l].wlog) /\ links[l].wlog[i].type = "attach"}

SessionsSynced(c, sessions) ==
  \E i \in 1..Len(c.rcv) : c.rcv[i] = sessions

\* the request ids of the list_sessions messages written on the agent links
RequestsWritten ==
  {links[l].wlog[i].proto :
     <<l, i>> \in {<<l, i>> \in Links \X (1..MaxEvents + 1) :
                     /\ i <= Len(links[l].wlog)
                     /\ links[l].wlog[i].type = "list_sessions"}}

\* the step of client task k after which the code starts a session sync: the
\* write_status of the handshake has been written, or the attach or detach of
\* a protocol-2 client has been forwarded
SyncTrigger(k) ==
  \/ /\ cl[k].pc = "cw" /\ cl[k].to = k /\ cl[k].out.type = "write_status"
     /\ cl'[k].pc = "loop"
  \/ /\ cl[k].pc = "awing" /\ cl[k].proto = 2
     /\ cl[k].req \in {"attach", "detach"}
     /\ cl'[k].pc = "loop"

\* C17: after a handshake, a protocol-2 attach and a protocol-2 detach a sync
\* is started; a sync that finds the agent connected writes list_sessions
\* with a request id not used before on the agent's link; after a reply the
\* sync takes the client set of the agent's record, and when it ends every
\* client of that set whose connection is open has received sessions_sync
\* with the list of the reply.
C17_SessionSync ==
  [][/\ \A k \in Conns : SyncTrigger(k) =>
          spawned'[cl[k].agentID] = spawned[cl[k].agentID] + 1
     /\ \A a \in AgentIds :
          spawned'[a] < spawned[a] /\ agents[a].conn # NoLink =>
            \E s \in syncs' \ syncs :
              /\ s.agentID = a /\ s.agent = agents[a].conn /\ s.pc = "aw"
              /\ s.req \notin RequestsWritten \cup {t.req : t \in syncs}
     /\ \A s \in syncs :
          s.pc = "awing" /\ s \notin syncs' /\ links[s.agent].open =>
            links'[s.agent].wlog =
              Append(links[s.agent].wlog, ListSessionsMsg(s.req))
     /\ \A s \in syncs : \A t \in syncs' :
          s.pc = "snap" /\ t.req = s.req /\ t.pc = "cw" =>
            /\ t.all = agents[s.agentID].clients
            /\ t.got = s.got
     /\ \A s \in syncs :
          s.pc \in {"snap", "cw"} /\ s.req \notin {t.req : t \in syncs'} =>
            \A c \in IF s.pc = "cw" THEN s.all ELSE agents[s.agentID].clients :
              cl'[connOf(c)].open => SessionsSynced(cl'[connOf(c)], s.got)
    ]_vars

\* the sync started by the handshake of one client has ended, and both
\* clients of the agent have received the list of the agent's reply
C17_Witness ==
  /\ syncs = {}
  /\ \E r \in RequestsWritten :
       \A k \in Conns :
         /\ cl[k].open /\ cl[k].id \in agents["agent1"].clients
         /\ \E i \in 1..Len(cl[k].rcv) : cl[k].rcv[i][1] = r

\* a step in which an agent link reads a sessions reply
SessionsRead ==
  events' = events + 1 /\ UNCHANGED <<agents, links, cl>>

\* C18: request ids grow with every request, so that none repeats; a
\* requester takes only a reply sent under its own request id; reading a
\* sessions reply changes nothing but the channel of a pending request of
\* that id whose channel is empty, and leaves the link in its read loop.
C18_ReplyRouting ==
  [][/\ \A s \in syncs' : s.req <= reqID'
     /\ \A s \in syncs' : s.req \notin {t.req : t \in syncs} => s.req > reqID
     /\ \A s, t \in syncs' : s.req = t.req => s = t
     /\ \A s \in syncs' : s.got # <<>> => s.got[1] = s.req
     /\ SessionsRead =>
          /\ UNCHANGED <<syncs, reqID, spawned, clientID>>
          /\ DOMAIN pendingSessions' = DOMAIN pendingSessions
          /\ \A r \in DOMAIN pendingSessions :
               pendingSessions'[r] # pendingSessions[r] =>
                 /\ pendingSessions[r] = <<>>
                 /\ Len(pendingSessions'[r]) = 1
                 /\ pendingSessions'[r][1][1] = r
                 /\ \A q \in DOMAIN pendingSessions \ {r} :
                      pendingSessions'[q] = pendingSessions[q]
    ]_vars

\* two requests are in flight at once; one requester has taken the reply sent
\* under its id while the other still waits with an empty channel
C18_Witness ==
  \E s, t \in syncs :
    /\ s.req # t.req
    /\ s.got # <<>> /\ s.got[1] = s.req
    /\ t.pc = "wait" /\ pendingSessions[t.req] = <<>>

\* the ids of the requests that have not returned
InFlight == {s.req : s \in {t \in syncs : t.pc \in {"aw", "awing", "wait"}}}

\* C19: every request returns; the pending table holds exactly the ids of
\* the requests that have not returned; a waiting request returns the reply
\* its channel holds, and times out when the channel is empty; a request that
\* times out, and a sync that finds no agent, end without a message to any
\* client.
C19_RequestsTerminate ==
  /\ [](DOMAIN pendingSessions = InFlight /\ InFlight \subseteq RequestIds)
  /\ [][/\ \A s \in syncs : s.pc = "wait" /\ s \notin syncs' =>
             IF pendingSessions[s.req] # <<>>
             THEN \E t \in syncs' :
                    /\ t.req = s.req /\ t.pc = "snap"
                    /\ t.got = pendingSessions[s.req][1]
             ELSE /\ s.req \notin {t.req : t \in syncs'}
                  /\ UNCHANGED <<cl, links, agents>>
        /\ \A a \in AgentIds :
             spawned'[a] < spawned[a] /\ agents[a].conn = NoLink =>
               UNCHANGED <<cl, links, agents, syncs, reqID, pendingSessions>>
       ]_vars
  /\ \A r \in RequestIds : (r \in InFlight) ~> (r \notin InFlight)

\* a request was written to the agent and timed out: no request is in flight,
\* the pending table is empty and an open client of the agent has received
\* neither a session list nor an error
C19_Witness ==
  /\ RequestsWritten # {}
  /\ syncs = {} /\ pendingSessions = <<>>
  /\ \A a \in AgentIds : spawned[a] = 0
  /\ \E k \in Conns : /\ cl[k].open /\ cl[k].id \in agents["agent1"].clients
                      /\ cl[k].rcv = <<>> /\ cl[k].errs = <<>>

\* C20: a lock call is answered with success exactly when the record of the
\* agent exists and its hint is empty or is the session of the call; a
\* successful call sets write to the value of the call and a failed call
\* leaves it as it was; the writer, the client set, the hint and the link of
\* the record stay as they were.
C20_SetWebWritable ==
  [][lockReply'.n = events' /\ lockReply'.n # lockReply.n =>
       LET in == lockReply'
           old == agentOf(agents, in.agentID)
           new == agentOf(agents', in.agentID)
           ok == old # NilAgent /\ old.sess \in {NoSession, in.sessionID}
       IN /\ in.status = IF ok THEN StatusNoContent ELSE StatusNotFound
          /\ new.write = IF ok THEN in.enabled ELSE old.write
          /\ new.writer = old.writer /\ new.clients = old.clients
          /\ new.sess = old.sess /\ new.conn = old.conn
          /\ \A a \in AgentIds \ {in.agentID} : agents'[a] = agents[a]
    ]_vars

\* the last event of the run was a lock call that names another session than
\* the hint of the record: it was answered with not found, and the record is
\* still writable and still has its writer
C20_Witness ==
  /\ lockReply.status = StatusNotFound
  /\ lockReply.sessionID = S2 /\ ~lockReply.enabled
  /\ lockReply.n = events
  /\ agents[lockReply.agentID].sess = S1
  /\ agents[lockReply.agentID].write
  /\ agents[lockReply.agentID].writer # NoClient

\* client record c is being answered with write_denied
Denied(c) == c.pc = "cw" /\ c.out.type = "write_denied"

\* C21: a request_write is denied for one of three reasons that holds when it
\* is checked (no write claim; the record locked; the slot found taken and
\* the asker not its holder); deciding and writing the denial change neither the registry nor
\* the client's focus, active session, link and last write_status, nor any
\* other client, and the handler is back in its read loop afterwards; a
\* request of a client with the write claim, read while the record is
\* unlocked, is granted when its check finds the slot free.
C21_DenialRecoverable ==
  [][\A k \in Conns :
       LET old == cl[k]
           new == cl'[k]
           rec == agentOf(agents, old.agentID)
           same == /\ agents' = agents
                   /\ new.focus = old.focus /\ new.active = old.active
                   /\ new.open = old.open /\ new.status = old.status
                   /\ new.id = old.id /\ old.id \in rec.clients
                   /\ \A j \in Conns \ {k} : cl'[j] = cl[j]
       IN /\ ~Denied(old) /\ Denied(new) =>
               /\ new.req = "request_write" /\ new.to = k /\ new.ret = "loop"
               /\ \/ new.out.code = "not_authorized" /\ ~old.write
                  \/ new.out.code = "locked" /\ old.write /\ ~rec.write
                  \/ /\ new.out.code = "another_writer" /\ old.write
                     /\ old.pc = "rw_is" /\ rec.writer # old.id
               /\ same
          /\ Denied(old) /\ ~Denied(new) =>
               /\ new.pc = "loop"
               /\ old.open => new.errs = Append(old.errs, old.out.code)
               /\ same
          /\ (/\ old.pc = "loop" /\ new.req = "request_write"
              /\ old.write /\ rec.write) => new.pc = "rw_has"
          /\ (old.pc = "rw_has" /\ new.pc # "rw_has") =>
               new.pc = IF rec.writer = NoClient THEN "rw_set" ELSE "rw_is"
          /\ (old.pc = "rw_set" /\ new.pc # "rw_set") =>
               agentOf(agents', old.agentID).writer = old.id
    ]_vars

\* a client whose request was denied while the record was locked has asked
\* again after the unlock: it is the writer and has been told so
C21_Witness ==
  \E k \in Conns :
    /\ cl[k].errs = <<"locked">>
    /\ cl[k].pc = "loop" /\ cl[k].open
    /\ agents[cl[k].agentID].writer = cl[k].id
    /\ agents[cl[k].agentID].write
    /\ cl[k].status = "true"

\* C22: (for an agent id that was registered once) a release_write of the
\* writer clears the slot, and the write_status messages its handler then
\* writes go to every client of the record and say write=false; the slot a
\* release clears is the releasing client's own; a release_write of a client
\* that is not the writer changes nothing and sends nothing.
C22_ReleaseClearsOwnSlot ==
  [][\A k \in Conns :
       LET old == cl[k]
           new == cl'[k]
           rec == agentOf(agents, old.agentID)
       IN (old.agentID \in AgentIds /\ FirstRecord(old.agentID)) =>
          /\ (old.pc = "loop" /\ new.req = "release_write") =>
               IF rec.writer = old.id /\ rec.conn # NoLink
               THEN new.pc = "rl_clear"
               ELSE /\ new.pc = "loop" /\ agents' = agents
                    /\ \A j \in Conns \ {k} : cl'[j] = cl[j]
          /\ (old.pc = "rl_clear" /\ new.pc # "rl_clear") =>
               /\ rec.writer \in {old.id, NoClient}
               /\ agentOf(agents', old.agentID).writer = NoClient
          /\ (old.req = "release_write" /\ old.pc = "bc_snap"
              /\ new.pc # "bc_snap") => new.snap = rec.clients
          /\ (new.req = "release_write" /\ new.pc = "cw") =>
               new.out = WriteStatusMsg(FALSE)
    ]_vars

\* C23: when the hub has read error{attach_failed} from the agent link of a
\* client whose attach was forwarded on it, the client, if its connection
\* stays open, receives an error with code attach_failed.
C23_AttachFailureRelayed ==
  \A k \in Conns :
    (/\ cl[k].open /\ cl[k].pc = "loop"
     /\ links[cl[k].agent].msg = ErrorMsg("attach_failed"))
    ~> (\/ ~cl[k].open
        \/ \E i \in 1..Len(cl[k].errs) : cl[k].errs[i] = "attach_failed")

\* C24: the active session hint of an agent record changes only in a step
\* that is an administrative lock call.
C24_HintSetByLockOnly ==
  [][\A a \in AgentIds :
       (/\ agents[a].conn # NoLink
        /\ agents'[a].conn = agents[a].conn
        /\ agents'[a].sess # agents[a].sess)
       => lockReply'.n = events' /\ lockReply'.n # lockReply.n]_vars

\* C25: a step that runs a critical section of the registry mutex on the
\* agent records (it changes a record) neither closes a client or agent
\* connection nor takes or releases the write lock of an agent link.
C25_NoLinkOperationUnderRegistryLock ==
  [][agents' # agents =>
       /\ \A k \in Conns : cl[k].open => cl'[k].open
       /\ \A l \in Links : links[l].open => links'[l].open
       /\ \A l \in Links : links'[l].mu = links[l].mu]_vars

\* C26: on a successful handshake the hub first writes attach for the client's
\* first session on the agent link, when that write has returned it sends
\* attached to the client, and when attached was sent it sends the initial
\* write_status, whose write is false: from its registration to its initial
\* write_status the new client is not the writer of its agent.
C26_HandshakeReplies ==
  [][\A k \in Conns :
       /\ (cl'[k].pc = "cw" /\ cl'[k].out.type = "attached" /\ cl[k].pc # "cw")
            => /\ cl[k].pc = "awing"
               /\ cl[k].out.type = "attach"
               /\ \E a \in AttachInputs(profile) :
                    cl[k].out.sid = IF a.SessionID = NoSession
                                    THEN cl[k].session ELSE a.SessionID
               /\ cl[k].out.proto = cl[k].proto
               /\ links[cl[k].agent].mu = ClientTask(k)
               /\ links'[cl[k].agent] =
                    [Written(links[cl[k].agent], cl[k].out) EXCEPT !.mu = NoTask]
               /\ cl'[k].to = k
       /\ (cl'[k].pc = "ws_check" /\ cl[k].pc # "ws_check")
            => cl[k].pc = "cw" /\ cl[k].out.type = "attached" /\ cl[k].open
       /\ (cl[k].pc = "ws_check" /\ cl'[k].pc # "ws_check")
            => /\ cl'[k].pc = "cw"
               /\ cl'[k].to = k
               /\ cl'[k].out = WriteStatusMsg(FALSE)
       /\ (\/ cl'[k].pc \in {"setsess", "ws_check"}
           \/ cl'[k].pc \in {"aw", "awing"} /\ cl'[k].ret = "attached"
           \/ cl'[k].pc = "cw" /\ cl'[k].out.type = "attached")
            => ~isWriter(agents', cl'[k].agentID, cl'[k].id)]_vars

\* C26 witness: a client that registered while another client held the writer
\* slot of its agent is being sent its initial write_status.
C26_Witness ==
  \E k, j \in Conns :
    /\ k # j
    /\ cl[k].pc = "cw" /\ cl[k].ret = "spawn"
    /\ cl[k].out = WriteStatusMsg(FALSE)
    /\ cl[j].id # NoClient /\ cl[j].agentID = cl[k].agentID
    /\ isWriter(agents, cl[j].agentID, cl[j].id)

\* C27: a text message that is not JSON, a protocol-2 attach, detach or
\* active without session_id, or a protocol-2 attach of a session other than
\* the pinned one ends the handler of the client that sent it and of no other
\* client: the client is sent one error (bad_request, for the foreign session
\* not_authorized), is removed from the client set of its agent and its
\* connection is closed; if it was the writer the slot is cleared and every
\* remaining client is sent write_status with write=false.
C27_ViolationFatal ==
  [][\A k \in Conns :
       LET old == cl[k]
           new == cl'[k]
           rec == agentOf(agents, old.agentID)
           rec2 == agentOf(agents', old.agentID)
       IN
       /\ (old.pc = "loop" /\ events' # events /\ new.req # "") =>
            \E m \in ClientMessagesAt(profile, k, events') :
              /\ m.type = new.req
              /\ LET code ==
                       IF m.type = "badjson" THEN "bad_request"
                       ELSE IF /\ old.proto >= 2
                               /\ m.type \in {"attach", "detach", "active"}
                               /\ m.sid = NoSession
                         THEN "bad_request"
                       ELSE IF /\ old.proto >= 2 /\ m.type = "attach"
                               /\ old.session # NoSession
                               /\ m.sid # old.session
                         THEN "not_authorized"
                       ELSE ""
                 IN IF code # ""
                    THEN /\ new.pc = "cw" /\ new.to = k
                         /\ new.out = ErrorMsg(code)
                         /\ new.ret = "d_remove"
                    ELSE new.out.type # "error" /\ new.ret # "d_remove"
       /\ (old.pc = "cw" /\ old.ret = "d_remove" /\ new.pc # "cw") =>
            /\ new.pc = "d_remove"
            /\ new.errs = <<old.out.code>>
       /\ (old.pc = "d_remove" /\ new.pc # "d_remove") =>
            /\ rec2.clients = rec.clients \ {old.id}
            /\ rec2.writer = IF rec.writer = old.id THEN NoClient
                             ELSE rec.writer
            /\ new.pc = IF rec.writer = old.id THEN "bc_snap" ELSE "d_close"
            /\ \A j \in Conns \ {k} : cl'[j] = cl[j]
       /\ (old.pc = "bc_snap" /\ old.bret = "d_close" /\ new.pc # "bc_snap") =>
            new.snap = rec.clients
       /\ (new.pc = "cw" /\ new.ret = "bc" /\ new.bret = "d_close") =>
            new.out = WriteStatusMsg(FALSE)
       /\ (old.pc = "d_close" /\ new.pc # "d_close") =>
            new.pc = "closed" /\ ~new.open
    ]_vars

\* C28: once its context is cancelled, Client.Run, on a link that the hub
\* keeps open, returns the context's error with every attached session
\* closed.
C28_CancelReturns ==
  run.cancelled ~>
    \/ run.pc = "returned" /\ run.err = "canceled" /\ run.sessions = {}
    \/ ~run.open

\* the number of bytes of a packed byte string
RECURSIVE PackedLen(_)
PackedLen(r) == IF r = <<>> THEN 0 ELSE r[1][2] + PackedLen(Tail(r))

\* C29: for every session id of 1 to 65535 bytes and every payload, the
\* empty one included, Encode succeeds and Decode of the frame it returns
\* succeeds with that session id and that payload.
C29_RoundTrip ==
  (PackedLen(mux.sid) >= 1 /\ PackedLen(mux.sid) <= 65535) =>
    /\ mux.pc = "encoded" => mux.enc.ok
    /\ mux.pc = "roundtrip" =>
         /\ mux.dec.ok
         /\ mux.dec.sid = mux.sid
         /\ mux.dec.payload = mux.payload

\* C29 witness: a session id of 65535 bytes with the empty payload went
\* through Encode and Decode.
C29_Witness ==
  /\ mux.pc = "roundtrip"
  /\ PackedLen(mux.sid) = 65535
  /\ mux.payload = <<>>
  /\ mux.dec.ok

\* C30: Encode fails exactly for the empty session id and for session ids of
\* more than 65535 bytes; Decode fails exactly for frames of fewer than 2
\* bytes, frames whose declared session-id length exceeds the bytes after the
\* prefix, and frames that declare the length zero.
C30_Rejections ==
  /\ mux.pc \in {"encoded", "roundtrip"} =>
       (mux.enc.ok <=>
          ~(PackedLen(mux.sid) = 0 \/ PackedLen(mux.sid) > 65535))
  /\ mux.pc = "decoded" =>
       LET n == PackedLen(mux.data)
           first == mux.data[1][1]
           second == IF mux.data[1][2] >= 2 THEN first ELSE mux.data[2][1]
           declared == first * 256 + second
       IN mux.dec.ok <=>
            ~(n < 2 \/ (n >= 2 /\ (declared > n - 2 \/ declared = 0)))

\* C30 witness: Decode rejected a frame that declares the length zero and
\* holds bytes after the prefix.
C30_Witness ==
  /\ mux.pc = "decoded"
  /\ PackedLen(mux.data) > 2
  /\ mux.data[1] = <<0, 2>>
  /\ ~mux.dec.ok

\* C31: every message that a client with a pinned session has the hub write
\* on the agent link names the pinned session: the frame of a binary input,
\* and the attach, detach and resize controls.
C31_PinnedSessionOnly ==
  \A k \in Conns :
    (cl[k].pc \in {"aw", "awing"} /\ cl[k].session # NoSession) =>
      IF cl[k].out.type = "binary"
        THEN Decode(cl[k].out.frame).sid = cl[k].session
      ELSE cl[k].out.type \in {"attach", "detach", "resize"}
             => cl[k].out.sid = cl[k].session

\* C32: while a client that attached session S1 and sent no detach is
\* connected, the agent, once it has read every control the hub forwarded
\* and no attach of its SessionManager has failed, has S1 attached and its
\* output goroutine running, whatever the other client of the agent sent.
C32_DetachOfOneKeepsSession ==
  (/\ cl[2].pc = "loop" /\ cl[2].open
   /\ run.pc # "returned" /\ run.failed = 0
   /\ run.pos = Len(links[cl[2].agent].wlog))
    => S1 \in run.sessions /\ S1 \in run.live

\* C33: a message that the hub writes for a client that is in the client set
\* of the record of its agent id goes to the link of that record.
C33_ForwardToOwnRecord ==
  \A k \in Conns :
    (/\ cl[k].pc \in {"aw", "awing"}
     /\ cl[k].id # NoClient
     /\ cl[k].id \in agentOf(agents, cl[k].agentID).clients)
      => agentOf(agents, cl[k].agentID).conn = cl[k].agent

\* C34: web_writable of an agent id that has a record and is locked becomes
\* true only in a step of the lock handler that is answered 204 and sets
\* enabled=true for that agent id.
C34_LockStaysInForce ==
  [][\A a \in AgentIds :
       (/\ agentOf(agents, a) # NilAgent
        /\ ~webWritable(agents, a)
        /\ webWritable(agents', a))
         => /\ lockReply'.n = events' /\ lockReply'.n # lockReply.n
            /\ lockReply'.agentID = a
            /\ lockReply'.enabled
            /\ lockReply'.status = StatusNoContent]_vars

\* C35: the list that resolves a list_sessions request, and that its sync
\* then broadcasts, was received on the agent link that the request was
\* written to.
C35_ResolvedByOwnLink ==
  /\ \A s \in syncs :
       (s.req \in DOMAIN pendingSessions /\ pendingSessions[s.req] # <<>>)
         => pendingSessions[s.req][1][3] = s.agent
  /\ \A s \in syncs : s.pc \in {"snap", "cw"} => s.got[3] = s.agent

\* C36: once no session sync is in flight, the last sessions_sync a client
\* received carries the list of the latest agent reply among the lists it
\* received (a list <<r, n>> of this profile is the reply that was the n-th
\* event of the run).
C36_LatestListLast ==
  \A k \in Conns :
    (syncs = {} /\ (\A a \in AgentIds : spawned[a] = 0) /\ cl[k].open
       /\ Len(cl[k].rcv) >= 2)
      => \A i \in 1..Len(cl[k].rcv) :
           cl[k].rcv[i][2] <= cl[k].rcv[Len(cl[k].rcv)][2]

\* C37: when Run handles an attach for a session whose output goroutine has
\* returned after Output was closed, and no Manager.Attach fails, the session
\* is attached through the manager once more and its output is forwarded
\* again.
C37_AttachAfterOutputEnded ==
  [][\A id \in SessionIds :
       (/\ run.pc = "read" /\ run.inbox # <<>>
        /\ Head(run.inbox) = SessionMsg("attach", id)
        /\ run'.inbox = Tail(run.inbox)
        /\ run'.failed = run.failed
        /\ id \in run.sessions /\ id \notin run.live)
         => id \in run'.live /\ run'.opened[id] = run.opened[id] + 1]_vars

\* C38: the agent holds at most one attached session per session id (the
\* sessions the manager attached for an id exceed the closed ones by one when
\* the id is in the map and by none when it is not, so a repeated attach
\* attaches nothing and no session is closed twice), and when Run has
\* returned the map is empty and every attached session was closed.
C38_SessionsClosedOnce ==
  /\ \A id \in SessionIds :
       run.opened[id] - run.closed[id] = IF id \in run.sessions THEN 1 ELSE 0
  /\ run.pc = "returned"
       => /\ run.sessions = {}
          /\ \A id \in SessionIds : run.opened[id] = run.closed[id]

\* Run returned after a session was attached, detached, attached again and
\* closed by the close-all, while another session was never attached
C38_Witness ==
  /\ run.pc = "returned"
  /\ run.opened[S1] = 2
  /\ run.closed[S1] = 2
  /\ run.opened[S2] = 0

\* C39: RunWithRetry returns only when its context is done and returns the
\* context's error; a Run that failed while the context is live is followed
\* by a timer of the retry delay (2 s when the delay given is not positive)
\* and then by another call of Run; Run is called again only after that
\* timer and with the context live, so a context cancelled during the delay
\* ends the loop without a further call.
C39_RetryLoop ==
  /\ [](run.loop = "returned" => run.cancelled /\ run.ret = "canceled")
  /\ [][/\ (run.loop = "run" /\ run.pc = "returned" /\ run'.loop = "delay")
             => /\ ~run.cancelled
                /\ run'.delay = IF run.retry <= 0 THEN 2 ELSE run.retry
        /\ (run.pc = "returned" /\ run'.pc # "returned")
             => /\ run.loop = "delay" /\ ~run.cancelled
                /\ run'.pc = "start" /\ run'.loop = "run"
                /\ run'.delay = IF run.retry <= 0 THEN 2 ELSE run.retry
        /\ (run.loop = "delay" /\ run.cancelled /\ run'.loop # "delay")
             => run'.loop = "returned" /\ run'.pc = "returned"]_vars
  /\ (run.loop = "run" /\ run.pc = "returned" /\ ~run.cancelled)
       ~> (run.pc = "start" \/ run.cancelled)

\* RunWithRetry returned the context's error after a cancel during the 2 s
\* delay that followed a failed Run, with the delay given not positive
C39_Witness ==
  /\ run.loop = "returned"
  /\ run.ret = "canceled"
  /\ run.retry = 0
  /\ run.delay = 2
  /\ run.err = "read"

====
